---- MODULE Spec2Model ----
(***************************************************************************)
(* TrendRadar content production pipeline.                                 *)
(*                                                                         *)
(*   ContentPipeline  (trendradar/content_pipeline.py)                     *)
(*   ContentPublisher (trendradar/publisher/content_publisher.py)          *)
(*   ContentFormatter (trendradar/formatter/content_formatter.py)          *)
(*                                                                         *)
(* Time is a tick counter `now`; a calendar day is TicksPerDay ticks.      *)
(* An inspiration is identified by its position in the caller's batch;     *)
(* outlines, articles and formatted contents carry that identifier in      *)
(* `src`.  The text of the generated content is not modelled.              *)
(***************************************************************************)
EXTENDS Integers, Sequences, FiniteSets, TLC

\* ------------------------------------------------------------------ bounds
MaxInspirations == 3      \* longest batch handed to run_pipeline
MaxRuns == 1              \* run_pipeline invocations per behaviour
MaxRepeats == 2           \* run_pipeline invocations per behaviour of the repeated-run specification
MaxFaults == 1            \* transform and artifact-save failures per behaviour
MaxCalls == 2             \* direct publisher calls per behaviour
MaxContents == 2          \* contents per direct publish_to_platforms call
MaxTime == 1              \* last clock tick
MaxLog == 2               \* registry mutator and rate check calls per behaviour
MaxInstances == 2         \* ContentPublisher objects sharing the history file
TicksPerDay == 1          \* clock ticks per calendar day

\* ------------------------------------------------------- program constants
HistoryCap == 100
DefaultMaxArticles == 3
DefaultBatchSize == 2
NoRateLimit == -1         \* "rate_limit": None

\* ----------------------------------------------------------------- helpers
Range(s) == {s[i] : i \in DOMAIN s}

EmptyDict == [x \in {} |-> 0]

Min(a, b) == IF a < b THEN a ELSE b

\* s[:n] for n >= 0
Take(s, n) == SubSeq(s, 1, Min(n, Len(s)))

\* s[-n:] for n > 0
LastN(s, n) == IF Len(s) <= n THEN s ELSE SubSeq(s, Len(s) - n + 1, Len(s))

\* datetime.now().strftime("%Y-%m-%d") of a timestamp
DayOf(t) == t \div TicksPerDay

\* dict.get(key, default)
DictGet(d, k, default) == IF k \in DOMAIN d THEN d[k] ELSE default

\* --------------------------------------------------- ContentPublisher state
RegistryPlatforms == {"wechat", "zhihu", "xiaohongshu", "toutiao", "feishu", "file"}

\* self.platform_configs as built by __init__
SeedPlatformConfigs ==
    [p \in RegistryPlatforms |->
        CASE p = "wechat"      -> [publish_method |-> "api",     rate_limit |-> 10,  enabled |-> FALSE]
          [] p = "zhihu"       -> [publish_method |-> "api",     rate_limit |-> 5,   enabled |-> FALSE]
          [] p = "xiaohongshu" -> [publish_method |-> "webhook", rate_limit |-> 3,   enabled |-> FALSE]
          [] p = "toutiao"     -> [publish_method |-> "api",     rate_limit |-> 10,  enabled |-> FALSE]
          [] p = "feishu"      -> [publish_method |-> "webhook", rate_limit |-> 100, enabled |-> TRUE]
          [] p = "file"        -> [publish_method |-> "local",   rate_limit |-> NoRateLimit, enabled |-> TRUE]]

\* dict.update of one platform's descriptor with a partial descriptor
UpdateDescriptor(cfg, upd) ==
    [k \in DOMAIN cfg |-> IF k \in DOMAIN upd THEN upd[k] ELSE cfg[k]]

\* ContentPublisher._load_config: overrides of unknown platforms are ignored
LoadPlatformConfig(seed, source_platforms) ==
    [p \in DOMAIN seed |->
        IF p \in DOMAIN source_platforms
        THEN UpdateDescriptor(seed[p], source_platforms[p])
        ELSE seed[p]]

\* self.platform_configs.get(platform, {}) read with the .get defaults of
\* _publish_single and _check_rate_limit
PlatformConfigGet(cfgs, platform) ==
    IF platform \in DOMAIN cfgs
    THEN cfgs[platform]
    ELSE [publish_method |-> "file", rate_limit |-> NoRateLimit, enabled |-> FALSE]

\* ------------------------------------------------------------- rate limit
\* the list comprehension of _check_rate_limit
TodayPublishes(history, platform, today) ==
    SelectSeq(history, LAMBDA h :
        /\ DictGet(h, "platform", "None") = platform
        /\ "timestamp" \in DOMAIN h
        /\ DayOf(h["timestamp"]) = today
        /\ DictGet(h, "success", FALSE))

CheckRateLimit(cfgs, history, platform, today) ==
    LET rate_limit == PlatformConfigGet(cfgs, platform).rate_limit
    IN  IF rate_limit = NoRateLimit
        THEN TRUE
        ELSE Len(TodayPublishes(history, platform, today)) < rate_limit

\* --------------------------------------------------------- publish methods
FailedResult(platform, error) ==
    [success |-> FALSE, platform |-> platform, error |-> error, method |-> "none"]

\* fs_ok: whether makedirs/open/json.dump succeed
PublishToFile(content, platform, fs_ok) ==
    IF fs_ok
    THEN [success |-> TRUE, platform |-> platform, error |-> "", method |-> "file"]
    ELSE FailedResult(platform, "file_write_failed")

PublishViaWebhook(content, platform) ==
    IF platform = "feishu"
    THEN [success |-> TRUE, platform |-> platform, error |-> "", method |-> "webhook"]
    ELSE FailedResult(platform, "webhook_not_implemented")

\* what an external call does: it succeeds, it answers without success (or
\* credentials are missing), or it raises
EnvOutcomes == {"ok", "refused", "raised"}

\* mutant: the answer of the WeChat API is not inspected
PublishWechatDraft_IgnoreResponse(content, response) ==
    [success |-> TRUE, platform |-> "wechat", error |-> "", method |-> "api"]

\* response: whether the WeChat token and draft/add calls answer with success;
\* the error of a refusal is built from the answer
PublishWechatDraft(content, response) ==
    IF response = "ok"
    THEN [success |-> TRUE, platform |-> "wechat", error |-> "", method |-> "api"]
    ELSE FailedResult("wechat", "remote_failure")

\* a request that raises inside _publish_wechat_draft is caught here and
\* reported with str(e)
PublishViaApi(content, platform, remote) ==
    IF platform = "wechat"
    THEN IF remote = "raised"
         THEN FailedResult(platform, "remote_exception")
         ELSE PublishWechatDraft(content, remote)
    ELSE [success |-> TRUE, platform |-> platform, error |-> "", method |-> "api"]

\* mutant: a content is published only on the platform it was formatted for
PublishSingle_Matching(cfgs, history, today, content_idx, content, platform, env_ok) ==
    LET platform_config == PlatformConfigGet(cfgs, platform)
        publish_method == platform_config.publish_method
    IN  IF ~platform_config.enabled \/ content.platform # platform
        THEN FailedResult(platform, "platform_disabled")
        ELSE IF ~CheckRateLimit(cfgs, history, platform, today)
        THEN FailedResult(platform, "rate_limited")
        ELSE IF publish_method = "file"
        THEN PublishToFile(content, platform, env_ok = "ok")
        ELSE IF publish_method = "webhook"
        THEN PublishViaWebhook(content, platform)
        ELSE IF publish_method = "api"
        THEN PublishViaApi(content, platform, env_ok)
        ELSE FailedResult(platform, "unsupported_method")

\* mutant: the enabled flag is not consulted
PublishSingle_IgnoreEnabled(cfgs, history, today, content_idx, content, platform, env_ok) ==
    LET platform_config == PlatformConfigGet(cfgs, platform)
        publish_method == platform_config.publish_method
    IN  IF ~CheckRateLimit(cfgs, history, platform, today)
        THEN FailedResult(platform, "rate_limited")
        ELSE IF publish_method = "file"
        THEN PublishToFile(content, platform, env_ok = "ok")
        ELSE IF publish_method = "webhook"
        THEN PublishViaWebhook(content, platform)
        ELSE IF publish_method = "api"
        THEN PublishViaApi(content, platform, env_ok)
        ELSE FailedResult(platform, "unsupported_method")

\* mutant: the rate limit is checked before the enabled flag
PublishSingle_RateFirst(cfgs, history, today, content_idx, content, platform, env_ok) ==
    LET platform_config == PlatformConfigGet(cfgs, platform)
        publish_method == platform_config.publish_method
    IN  IF ~CheckRateLimit(cfgs, history, platform, today)
        THEN FailedResult(platform, "rate_limited")
        ELSE IF ~platform_config.enabled
        THEN FailedResult(platform, "platform_disabled")
        ELSE IF publish_method = "file"
        THEN PublishToFile(content, platform, env_ok = "ok")
        ELSE IF publish_method = "webhook"
        THEN PublishViaWebhook(content, platform)
        ELSE IF publish_method = "api"
        THEN PublishViaApi(content, platform, env_ok)
        ELSE FailedResult(platform, "unsupported_method")

\* env_ok is the outcome (one of EnvOutcomes) of the one external call the
\* selected method makes
PublishSingle(cfgs, history, today, content_idx, content, platform, env_ok) ==
    LET platform_config == PlatformConfigGet(cfgs, platform)
        publish_method == platform_config.publish_method
    IN  IF ~platform_config.enabled
        THEN FailedResult(platform, "platform_disabled")
        ELSE IF ~CheckRateLimit(cfgs, history, platform, today)
        THEN FailedResult(platform, "rate_limited")
        ELSE IF publish_method = "file"
        THEN PublishToFile(content, platform, env_ok = "ok")
        ELSE IF publish_method = "webhook"
        THEN PublishViaWebhook(content, platform)
        ELSE IF publish_method = "api"
        THEN PublishViaApi(content, platform, env_ok)
        ELSE FailedResult(platform, "unsupported_method")

\* the publish method was reached (neither disabled nor rate limited nor an
\* unsupported method)
MethodInvoked(result) ==
    result.error \notin {"platform_disabled", "rate_limited", "unsupported_method"}

\* ------------------------------------------------------ publish_to_platforms
\* mutant: every attempt is tallied as a success
TallyAdd_CountAll(platform_results, platform, success) ==
    LET pr == IF platform \in DOMAIN platform_results
              THEN platform_results
              ELSE platform_results @@ (platform :> [success |-> 0, failure |-> 0])
    IN  [pr EXCEPT ![platform].success = @ + 1]

\* mutant: the attempt that creates a platform's tally is not counted
TallyAdd_SkipFirst(platform_results, platform, success) ==
    IF platform \notin DOMAIN platform_results
    THEN platform_results @@ (platform :> [success |-> 0, failure |-> 0])
    ELSE IF success
    THEN [platform_results EXCEPT ![platform].success = @ + 1]
    ELSE [platform_results EXCEPT ![platform].failure = @ + 1]

\* the per-platform tally of publish_to_platforms
TallyAdd(platform_results, platform, success) ==
    LET pr == IF platform \in DOMAIN platform_results
              THEN platform_results
              ELSE platform_results @@ (platform :> [success |-> 0, failure |-> 0])
    IN  IF success
        THEN [pr EXCEPT ![platform].success = @ + 1]
        ELSE [pr EXCEPT ![platform].failure = @ + 1]

\* The nested loop of publish_to_platforms over contents and platforms.
\* env[<<i, j>>] is the outcome of the external call of content i on the
\* j-th requested platform.  invocations is no key of the returned dict: it
\* lists, in order, the calls of _publish_to_file, _publish_via_webhook and
\* _publish_via_api the loop made.
PublishLoop(cfgs, history, today, contents, platforms, env) ==
    LET n == Len(contents)
        m == Len(platforms)
        contentLoop[i \in 0..n] ==
            IF i = 0
            THEN [total_contents |-> n, total_platforms |-> m,
                  success_count |-> 0, failure_count |-> 0,
                  platform_results |-> EmptyDict, details |-> <<>>,
                  invocations |-> <<>>]
            ELSE LET platformLoop[j \in 0..m] ==
                        IF j = 0
                        THEN [results |-> contentLoop[i - 1], content_result |-> EmptyDict]
                        ELSE LET prev == platformLoop[j - 1]
                                 platform == platforms[j]
                                 platform_result ==
                                     PublishSingle(cfgs, history, today, i - 1,
                                                   contents[i], platform, env[<<i, j>>])
                             IN  [results |->
                                     [prev.results EXCEPT
                                        !.success_count = IF platform_result.success THEN @ + 1 ELSE @,
                                        !.failure_count = IF platform_result.success THEN @ ELSE @ + 1,
                                        !.platform_results =
                                            TallyAdd(@, platform, platform_result.success),
                                        !.invocations =
                                            IF MethodInvoked(platform_result)
                                            THEN Append(@, [content_index |-> i - 1,
                                                            platform |-> platform])
                                            ELSE @],
                                  content_result |->
                                     (platform :> platform_result) @@ prev.content_result]
                 IN  [platformLoop[m].results EXCEPT
                        !.details = Append(@, [content_index |-> i - 1,
                                               platform_results |-> platformLoop[m].content_result])]
    IN  contentLoop[n]

\* the entry _add_to_history derives from a batch report
HistoryEntry(publish_result, timestamp) ==
    [timestamp |-> timestamp,
     total_contents |-> publish_result.total_contents,
     success_count |-> publish_result.success_count,
     failure_count |-> publish_result.failure_count,
     platform_results |-> publish_result.platform_results]

\* mutant: the newest entries are dropped
CapHistory_KeepOldest(history) ==
    IF Len(history) > HistoryCap THEN SubSeq(history, 1, HistoryCap) ELSE history

\* the truncation of _save_history
CapHistory(history) ==
    IF Len(history) > HistoryCap THEN LastN(history, HistoryCap) ELSE history

\* mutant: a batch without a success leaves no entry
AddToHistory_OnlySuccess(history, publish_result, timestamp) ==
    IF publish_result.success_count > 0
    THEN CapHistory(Append(history, HistoryEntry(publish_result, timestamp)))
    ELSE history

\* self.publish_history after _add_to_history
AddToHistory(history, publish_result, timestamp) ==
    CapHistory(Append(history, HistoryEntry(publish_result, timestamp)))

\* a history file left by k earlier single-content dispatches to "file", one
\* per tick, the last of them one tick before the model's clock starts
EarlierReport ==
    [total_contents |-> 1, total_platforms |-> 1, success_count |-> 0, failure_count |-> 1,
     platform_results |-> ("file" :> [success |-> 0, failure |-> 1]), details |-> <<>>]

EarlierHistory(k) == [i \in 1..k |-> HistoryEntry(EarlierReport, i - k - 1)]

\* platforms = None: the enabled platforms in registry order
RegistryOrder == <<"wechat", "zhihu", "xiaohongshu", "toutiao", "feishu", "file">>

EnabledPlatforms(cfgs) == SelectSeq(RegistryOrder, LAMBDA p : cfgs[p].enabled)

\* --------------------------------------------------- ContentPipeline config
\* default_config of ContentPipeline._load_config, flattened
DefaultConfig ==
    [max_articles_per_run |-> DefaultMaxArticles,
     default_format_platforms |-> <<"wechat", "zhihu", "xiaohongshu", "toutiao">>,
     auto_publish |-> TRUE,
     publish_platforms |-> <<"file">>,
     outline_enabled |-> TRUE,
     writer_enabled |-> TRUE,
     formatter_enabled |-> TRUE,
     publisher_enabled |-> TRUE]

\* merge_dict(default_config, user_config)
MergeConfig(d1, d2) == [k \in DOMAIN d1 |-> IF k \in DOMAIN d2 THEN d2[k] ELSE d1[k]]

\* The configuration files the model is run with: the keys a file sets for the
\* pipeline, and its platform override map.
ZhihuConfigFile ==
    [pipeline |-> [max_articles_per_run |-> 2,
                   default_format_platforms |-> <<"zhihu", "wechat">>,
                   publish_platforms |-> <<"zhihu">>],
     platforms |-> ("zhihu" :> [enabled |-> TRUE, rate_limit |-> 1])]

ToutiaoConfigFile ==
    [pipeline |-> [default_format_platforms |-> <<"toutiao">>,
                   publish_platforms |-> <<"toutiao", "zhihu">>],
     platforms |-> ("toutiao" :> [enabled |-> TRUE])]

WechatConfigFile ==
    [pipeline |-> [max_articles_per_run |-> 1,
                   default_format_platforms |-> <<"wechat", "xiaohongshu">>,
                   publish_platforms |-> <<"wechat">>],
     platforms |-> ("wechat" :> [enabled |-> TRUE, rate_limit |-> 2])]

\* "file" is no format of the formatter; wechat stays disabled
FallbackConfigFile ==
    [pipeline |-> [max_articles_per_run |-> 1,
                   default_format_platforms |-> <<"xiaohongshu", "file">>,
                   publish_platforms |-> <<"wechat", "xiaohongshu">>],
     platforms |-> ("xiaohongshu" :> [enabled |-> TRUE])]

NoWriterConfigFile ==
    [pipeline |-> [max_articles_per_run |-> 1,
                   default_format_platforms |-> <<"toutiao">>,
                   publish_platforms |-> <<"toutiao">>,
                   writer_enabled |-> FALSE],
     platforms |-> EmptyDict]

NoOutlineConfigFile ==
    [pipeline |-> [max_articles_per_run |-> 2,
                   default_format_platforms |-> <<"toutiao">>,
                   publish_platforms |-> <<"toutiao">>,
                   outline_enabled |-> FALSE],
     platforms |-> ("toutiao" :> [enabled |-> TRUE])]

NoFormatterConfigFile ==
    [pipeline |-> [max_articles_per_run |-> 2,
                   default_format_platforms |-> <<"toutiao">>,
                   publish_platforms |-> <<"toutiao">>,
                   formatter_enabled |-> FALSE],
     platforms |-> ("toutiao" :> [enabled |-> TRUE])]

NoPublisherConfigFile ==
    [pipeline |-> [max_articles_per_run |-> 2,
                   default_format_platforms |-> <<"toutiao">>,
                   publish_platforms |-> <<"toutiao">>,
                   publisher_enabled |-> FALSE],
     platforms |-> ("toutiao" :> [enabled |-> TRUE])]

ManualPublishConfigFile ==
    [pipeline |-> [max_articles_per_run |-> 2,
                   default_format_platforms |-> <<"toutiao">>,
                   publish_platforms |-> <<"toutiao">>,
                   auto_publish |-> FALSE],
     platforms |-> ("toutiao" :> [enabled |-> TRUE])]

\* the files that switch a stage off, and one that switches none off
GatedConfigFiles ==
    {NoOutlineConfigFile, NoWriterConfigFile, NoFormatterConfigFile,
     NoPublisherConfigFile, ManualPublishConfigFile, ToutiaoConfigFile}

ConfigFiles ==
    {ZhihuConfigFile, ToutiaoConfigFile, WechatConfigFile, FallbackConfigFile,
     NoWriterConfigFile}

\* ------------------------------------------------------------------- state
VARIABLES
    config,              \* ContentPipeline.config
    platform_configs,    \* ContentPublisher.platform_configs
    publish_history,     \* ContentPublisher.publish_history
    history_file,        \* contents of publish_history.json
    now,                 \* datetime.now()
    pipeline_status,     \* ContentPipeline.pipeline_status
    pc,                  \* position of run_pipeline
    results,             \* the results dict of the current run
    inspirations,        \* inspirations after truncation
    outlines,            \* surviving outlines
    articles,            \* surviving articles
    formatted_contents,  \* surviving formatted contents
    item,                \* loop index of the current stage
    pitem,               \* platform loop index of the format stage
    aggregate,           \* aggregate of _publish_contents
    run_files,           \* output/pipeline/runs: run id -> record written
    faults,              \* item failures so far
    calls,               \* transforms invoked by the current run, in order
    dispatches,          \* publish_to_platforms calls of the current run
    direct_calls,        \* publish_to_platforms calls made by other callers
    inspiration_data,    \* the argument of the current run_pipeline call
    api_log,             \* registry mutator and rate check calls, with what they returned
    disk,                \* output/pipeline: path -> times written and last contents
    run_calls,           \* run_pipeline invocations so far
    instances            \* further ContentPublisher objects on the same history file

vars == <<config, platform_configs, publish_history, history_file, now,
          pipeline_status, pc, results, inspirations, outlines, articles,
          formatted_contents, item, pitem, aggregate, run_files, faults,
          calls, dispatches, direct_calls, inspiration_data, api_log,
          disk, run_calls, instances>>

pipelineVars == <<pipeline_status, pc, results, inspirations, outlines, articles,
                  formatted_contents, item, pitem, aggregate, run_files, faults, calls>>

EmptyResults ==
    [pipeline_run_id |-> 0,
     total_inspirations |-> 0, total_articles |-> 0, total_published |-> 0,
     module_results |-> [m \in {"outline", "writer", "formatter", "publisher"} |->
                            [processed |-> 0, success |-> 0, failed |-> 0]],
     output_files |-> <<>>, errors |-> <<>>,
     summary |-> EmptyDict]

EmptyAggregate ==
    [total_contents |-> 0, total_platforms |-> 0, success_count |-> 0,
     failure_count |-> 0, platform_results |-> EmptyDict, details |-> <<>>]

\* ContentPipeline.__init__ and ContentPublisher.__init__ run with one of the
\* configuration files and a history file of the given length.
InitWith(file, k) ==
    /\ config = MergeConfig(DefaultConfig, file.pipeline)
    /\ platform_configs = LoadPlatformConfig(SeedPlatformConfigs, file.platforms)
    /\ history_file = EarlierHistory(k)
    /\ publish_history = EarlierHistory(k)
    /\ now = 0
    /\ pipeline_status = [last_run |-> -1, total_runs |-> 0,
                          success_count |-> 0, failure_count |-> 0]
    /\ pc = "idle"
    /\ results = EmptyResults
    /\ inspirations = <<>>
    /\ outlines = <<>>
    /\ articles = <<>>
    /\ formatted_contents = <<>>
    /\ item = 1
    /\ pitem = 1
    /\ aggregate = EmptyAggregate
    /\ run_files = EmptyDict
    /\ faults = 0
    /\ calls = <<>>
    /\ dispatches = <<>>
    /\ direct_calls = 0
    /\ inspiration_data = [given |-> FALSE, items |-> <<>>]
    /\ api_log = <<>>
    /\ disk = EmptyDict
    /\ run_calls = 0
    /\ instances = <<>>

Init == \E file \in ConfigFiles : InitWith(file, 0)

\* -------------------------------------------------------------------- clock
\* The clock is read by RunStart and by a dispatch (durations and end times
\* are not modelled); time that
\* passes elsewhere in a run is indistinguishable from time passing just
\* before the next of these reads.
Tick ==
    /\ now < MaxTime
    /\ pc \in {"idle", "returned", "raised", "dispatch"}
    /\ now' = now + 1
    /\ UNCHANGED <<config, run_calls, instances, disk, inspiration_data, api_log, platform_configs, publish_history, history_file,
                   pipelineVars, dispatches, direct_calls>>

\* ------------------------------------------------------ publish_to_platforms
\* One call of ContentPublisher.publish_to_platforms: the loop, then
\* _add_to_history and _save_history.  save_ok: the history file is written.
PublishToPlatforms(contents, platforms, env, save_ok, report) ==
    /\ report = PublishLoop(platform_configs, publish_history, DayOf(now),
                            contents, platforms, env)
    /\ publish_history' = AddToHistory(publish_history, report, now)
    /\ history_file' = IF save_ok THEN publish_history' ELSE history_file

\* The external calls of a batch: env[<<i, j>>] is consulted only when the
\* j-th platform is enabled and its method makes one (a file write, the
\* WeChat API), so it is fixed to "ok" everywhere else; a file write either
\* succeeds or raises.
MakesExternalCall(cfgs, platform) ==
    LET platform_config == PlatformConfigGet(cfgs, platform)
    IN  /\ platform_config.enabled
        /\ \/ platform_config.publish_method = "file"
           \/ platform_config.publish_method = "api" /\ platform = "wechat"

EnvChoices(cfgs, contents, platforms) ==
    { env \in [(1..Len(contents)) \X (1..Len(platforms)) -> EnvOutcomes] :
        \A ij \in DOMAIN env :
            /\ ~MakesExternalCall(cfgs, platforms[ij[2]]) => env[ij] = "ok"
            /\ PlatformConfigGet(cfgs, platforms[ij[2]]).publish_method = "file"
                  => env[ij] # "refused" }

\* contents a caller other than the pipeline hands to the publisher
\* a batch of n contents formatted alternately for zhihu and for wechat
ContentTags == <<"zhihu", "wechat">>

DirectBatch(n) == [i \in 1..n |-> [platform |-> ContentTags[((i - 1) % 2) + 1], src |-> i]]

DirectContents == { DirectBatch(n) : n \in 0..MaxContents }

DirectPlatforms == { <<"zhihu">>, <<"wechat", "zhihu">> }

DirectPublish ==
    /\ pc \in {"idle", "returned"}
    /\ direct_calls < MaxCalls
    /\ \E contents \in DirectContents, platforms \in DirectPlatforms, save_ok \in BOOLEAN :
         \E env \in EnvChoices(platform_configs, contents, platforms) :
            LET report == PublishLoop(platform_configs, publish_history, DayOf(now),
                                      contents, platforms, env)
            IN  /\ PublishToPlatforms(contents, platforms, env, save_ok, report)
                /\ dispatches' = <<[contents |-> contents, platforms |-> platforms,
                                    report |-> report, env |-> env,
                                        saved |-> save_ok]>>
    /\ direct_calls' = direct_calls + 1
    /\ UNCHANGED <<config, run_calls, instances, disk, inspiration_data, api_log, platform_configs, now, pipelineVars>>

\* platforms = None
DirectPublishDefault ==
    /\ pc \in {"idle", "returned"}
    /\ direct_calls < MaxCalls
    /\ \E contents \in DirectContents, save_ok \in BOOLEAN :
         LET platforms == EnabledPlatforms(platform_configs)
         IN  \E env \in EnvChoices(platform_configs, contents, platforms) :
                LET report == PublishLoop(platform_configs, publish_history, DayOf(now),
                                          contents, platforms, env)
                IN  /\ PublishToPlatforms(contents, platforms, env, save_ok, report)
                    /\ dispatches' = <<[contents |-> contents, platforms |-> platforms,
                                        report |-> report, env |-> env,
                                        saved |-> save_ok]>>
    /\ direct_calls' = direct_calls + 1
    /\ UNCHANGED <<config, run_calls, instances, disk, inspiration_data, api_log, platform_configs, now, pipelineVars>>

InitPublisher == \E file \in {ZhihuConfigFile, WechatConfigFile} : InitWith(file, 0)

NextPublisher == DirectPublish \/ DirectPublishDefault \/ Tick

SpecPublisher == InitPublisher /\ [][NextPublisher]_vars

\* ----------------------------------------------------------- history store
\* batch reports handed to _add_to_history
HistoryReports ==
    { [total_contents |-> 1, total_platforms |-> 1, success_count |-> s, failure_count |-> 1 - s,
       platform_results |-> (p :> [success |-> s, failure |-> 1 - s]), details |-> <<>>] :
      s \in {0, 1}, p \in {"zhihu", "feishu"} }

\* ContentPublisher._add_to_history followed by _save_history
AddToHistoryCall ==
    /\ direct_calls < MaxCalls
    /\ \E publish_result \in HistoryReports, save_ok \in BOOLEAN :
         /\ publish_history' = AddToHistory(publish_history, publish_result, now)
         /\ history_file' = IF save_ok THEN publish_history' ELSE history_file
    /\ direct_calls' = direct_calls + 1
    /\ UNCHANGED <<config, run_calls, instances, disk, inspiration_data, api_log, platform_configs, now, pipelineVars, dispatches>>

InitHistory ==
    \E k \in {HistoryCap - 2, HistoryCap - 1, HistoryCap} :
        InitWith([pipeline |-> EmptyDict, platforms |-> EmptyDict], k)

NextHistory == AddToHistoryCall \/ Tick

SpecHistory == InitHistory /\ [][NextHistory]_vars

\* ------------------------------------------------ shared history file
\* ContentPublisher.__init__ of one more object: every object uses the same
\* history file path and loads the file when it is built (the file is
\* readable)
NewPublisher ==
    /\ Len(instances) < MaxInstances
    /\ instances' = Append(instances, [pc |-> "loaded", publish_history |-> history_file,
                                       entry |-> EmptyDict])
    /\ UNCHANGED <<config, run_calls, disk, inspiration_data, api_log, platform_configs, publish_history,
                   history_file, now, pipelineVars, dispatches, direct_calls>>

\* _add_to_history of object i up to the append to its in-memory list
AppendEntry(i) ==
    /\ instances[i].pc = "loaded"
    /\ \E publish_result \in HistoryReports :
         LET history_entry == HistoryEntry(publish_result, now)
         IN  instances' = [instances EXCEPT
                              ![i].publish_history = Append(@, history_entry),
                              ![i].entry = history_entry,
                              ![i].pc = "appended"]
    /\ UNCHANGED <<config, run_calls, disk, inspiration_data, api_log, platform_configs, publish_history,
                   history_file, now, pipelineVars, dispatches, direct_calls>>

\* _save_history of object i: truncate the list and rewrite the whole file
SaveHistory(i) ==
    /\ instances[i].pc = "appended"
    /\ \E save_ok \in BOOLEAN :
         LET kept == CapHistory(instances[i].publish_history)
         IN  /\ instances' = [instances EXCEPT
                                 ![i].publish_history = kept,
                                 ![i].pc = IF save_ok THEN "saved" ELSE "save_failed"]
             /\ history_file' = IF save_ok THEN kept ELSE history_file
    /\ UNCHANGED <<config, run_calls, disk, inspiration_data, api_log, platform_configs, publish_history,
                   now, pipelineVars, dispatches, direct_calls>>

InitShared ==
    \E k \in 0..1 : InitWith([pipeline |-> EmptyDict, platforms |-> EmptyDict], k)

AppendEntryStep == \E i \in DOMAIN instances : AppendEntry(i)

SaveHistoryStep == \E i \in DOMAIN instances : SaveHistory(i)

NextShared == NewPublisher \/ AppendEntryStep \/ SaveHistoryStep \/ Tick

SpecShared == InitShared /\ [][NextShared]_vars

\* ------------------------------------------------------- platform registry
\* platform names handed to the mutators and to the rate check; "douyin" is
\* not in the registry
MutatorPlatforms == {"zhihu", "douyin"}

\* config_updates handed to update_platform_config
ConfigUpdates == {[rate_limit |-> 0]}

LogCall(op, platform, result) ==
    Append(api_log, [op |-> op, platform |-> platform, result |-> result,
                     day |-> DayOf(now), appends |-> direct_calls])

\* mutant: an unknown platform is reported as enabled
EnablePlatform_AlwaysTrue ==
    /\ Len(api_log) < MaxLog
    /\ \E platform \in MutatorPlatforms, enable \in BOOLEAN :
         /\ platform_configs' =
               IF platform \in DOMAIN platform_configs
               THEN [platform_configs EXCEPT ![platform].enabled = enable]
               ELSE platform_configs
         /\ api_log' = LogCall("enable_platform", platform, TRUE)
    /\ UNCHANGED <<config, run_calls, instances, disk, inspiration_data, publish_history, history_file, now,
                   pipelineVars, dispatches, direct_calls>>

\* ContentPublisher.enable_platform
EnablePlatform ==
    /\ Len(api_log) < MaxLog
    /\ \E platform \in MutatorPlatforms, enable \in BOOLEAN :
         IF platform \in DOMAIN platform_configs
         THEN /\ platform_configs' = [platform_configs EXCEPT ![platform].enabled = enable]
              /\ api_log' = LogCall("enable_platform", platform, TRUE)
         ELSE /\ platform_configs' = platform_configs
              /\ api_log' = LogCall("enable_platform", platform, FALSE)
    /\ UNCHANGED <<config, run_calls, instances, disk, inspiration_data, publish_history, history_file, now,
                   pipelineVars, dispatches, direct_calls>>

\* ContentPublisher.update_platform_config
UpdatePlatformConfig ==
    /\ Len(api_log) < MaxLog
    /\ \E platform \in MutatorPlatforms, config_updates \in ConfigUpdates :
         IF platform \in DOMAIN platform_configs
         THEN /\ platform_configs' =
                    [platform_configs EXCEPT
                        ![platform] = UpdateDescriptor(@, config_updates)]
              /\ api_log' = LogCall("update_platform_config", platform, TRUE)
         ELSE /\ platform_configs' = platform_configs
              /\ api_log' = LogCall("update_platform_config", platform, FALSE)
    /\ UNCHANGED <<config, run_calls, instances, disk, inspiration_data, publish_history, history_file, now,
                   pipelineVars, dispatches, direct_calls>>

\* mutant: the check records itself in the history
CheckRateLimitCall_Recording ==
    /\ Len(api_log) < MaxLog
    /\ \E platform \in MutatorPlatforms :
         /\ api_log' = LogCall("_check_rate_limit", platform,
                               CheckRateLimit(platform_configs, publish_history,
                                              platform, DayOf(now)))
         /\ publish_history' =
               Append(publish_history,
                      [timestamp |-> now, platform |-> platform, success |-> TRUE])
    /\ UNCHANGED <<config, run_calls, instances, disk, inspiration_data, platform_configs, history_file, now,
                   pipelineVars, dispatches, direct_calls>>

\* one evaluation of ContentPublisher._check_rate_limit
CheckRateLimitCall ==
    /\ Len(api_log) < MaxLog
    /\ \E platform \in MutatorPlatforms :
         api_log' = LogCall("_check_rate_limit", platform,
                            CheckRateLimit(platform_configs, publish_history,
                                           platform, DayOf(now)))
    /\ UNCHANGED <<config, run_calls, instances, disk, inspiration_data, platform_configs, publish_history,
                   history_file, now, pipelineVars, dispatches, direct_calls>>

\* publish_to_platforms on the registry as the mutators left it
RegistryPublish ==
    /\ direct_calls < MaxCalls
    /\ \E save_ok \in BOOLEAN :
         LET contents == DirectBatch(2)
             platforms == <<"zhihu", "feishu">>
         IN  \E env \in EnvChoices(platform_configs, contents, platforms) :
                LET report == PublishLoop(platform_configs, publish_history, DayOf(now),
                                          contents, platforms, env)
                IN  /\ PublishToPlatforms(contents, platforms, env, save_ok, report)
                    /\ dispatches' = <<[contents |-> contents, platforms |-> platforms,
                                        report |-> report, env |-> env,
                                        saved |-> save_ok]>>
    /\ direct_calls' = direct_calls + 1
    /\ UNCHANGED <<config, run_calls, instances, disk, inspiration_data, api_log, platform_configs, now, pipelineVars>>

InitRegistry == InitWith([pipeline |-> EmptyDict, platforms |-> EmptyDict], 0)

NextRegistry ==
    \/ EnablePlatform \/ UpdatePlatformConfig \/ CheckRateLimitCall
    \/ RegistryPublish \/ Tick

SpecRegistry == InitRegistry /\ [][NextRegistry]_vars

\* ------------------------------------------------------------ run_pipeline
FormatterPlatforms == {"wechat", "zhihu", "xiaohongshu", "toutiao", "blog"}

\* the "platform" field ContentFormatter.format_for_platform gives its result
FormatPlatformField(platform) ==
    IF platform \notin FormatterPlatforms THEN "wechat" ELSE platform

\* the batch _get_inspirations falls back to
DefaultBatch == [i \in 1..DefaultBatchSize |-> i]

\* the inspiration_data argument: None, or a list of 0..MaxInspirations items
InspirationInputs ==
    {[given |-> FALSE, items |-> <<>>]}
        \cup {[given |-> TRUE, items |-> [i \in 1..n |-> i]] : n \in 0..MaxInspirations}

\* mutant: no default batch; an absent argument is an empty batch
GetInspirations_NoFallback(data) == data.items

\* ContentPipeline._get_inspirations
GetInspirations(data) ==
    IF data.given THEN data.items ELSE DefaultBatch

\* what happens to one item of a stage: the transform returns and its artifact
\* is saved, the save returns False, or the transform (or makedirs) raises
Outcomes == {"ok", "save_failed", "raised"}

ArtifactPath(dir, platform, run_id, index) ==
    [dir |-> dir, platform |-> platform, run_id |-> run_id, index |-> index]

\* open(path, 'w') followed by json.dump(data, f)
WriteFile(files, path, data) ==
    (path :> [writes |-> (IF path \in DOMAIN files THEN files[path].writes ELSE 0) + 1,
              data |-> data]) @@ files

\* mutant: a raising item is counted but leaves no entry in errors
RecordItem_SilentRaise(res, module, outcome, path, save_error, raise_error) ==
    IF outcome = "ok"
    THEN [res EXCEPT !.module_results[module].processed = @ + 1,
                     !.module_results[module].success = @ + 1,
                     !.output_files = Append(@, path)]
    ELSE IF outcome = "save_failed"
    THEN [res EXCEPT !.module_results[module].processed = @ + 1,
                     !.module_results[module].failed = @ + 1,
                     !.errors = Append(@, save_error)]
    ELSE [res EXCEPT !.module_results[module].processed = @ + 1,
                     !.module_results[module].failed = @ + 1]

\* the counter, output_files and errors updates shared by the three branches
\* of a stage's loop body
RecordItem(res, module, outcome, path, save_error, raise_error) ==
    IF outcome = "ok"
    THEN [res EXCEPT !.module_results[module].processed = @ + 1,
                     !.module_results[module].success = @ + 1,
                     !.output_files = Append(@, path)]
    ELSE [res EXCEPT !.module_results[module].processed = @ + 1,
                     !.module_results[module].failed = @ + 1,
                     !.errors = Append(@, IF outcome = "save_failed"
                                          THEN save_error ELSE raise_error)]

\* mutant: the batch is not capped
TruncateBatch_NoCap(got, max_articles) == got

\* the cap on the batch
TruncateBatch(got, max_articles) ==
    IF Len(got) > max_articles THEN Take(got, max_articles) ELSE got

\* run_pipeline up to the truncation of the batch
StartRun ==
    /\ pc \in {"idle", "returned", "raised"}
    /\ run_calls' = run_calls + 1
    /\ \E data \in InspirationInputs :
         /\ inspiration_data' = data
         /\ LET got == GetInspirations(data)
                max_articles == config.max_articles_per_run
                fresh == [EmptyResults EXCEPT !.pipeline_run_id = now]
            IN  IF got = <<>>
                THEN /\ results' = [fresh EXCEPT !.errors = Append(@, "no_inspirations")]
                     /\ inspirations' = <<>>
                     /\ pc' = "returned"
                ELSE /\ results' = [fresh EXCEPT !.total_inspirations = Len(got)]
                     /\ inspirations' = TruncateBatch(got, max_articles)
                     /\ pc' = "outline"
    /\ pipeline_status' = [pipeline_status EXCEPT !.last_run = now, !.total_runs = @ + 1]
    /\ outlines' = <<>>
    /\ articles' = <<>>
    /\ formatted_contents' = <<>>
    /\ item' = 1
    /\ pitem' = 1
    /\ aggregate' = EmptyAggregate
    /\ calls' = <<>>
    /\ dispatches' = <<>>
    /\ UNCHANGED <<config, instances, disk, api_log, platform_configs, publish_history,
                   history_file, now, run_files, faults, direct_calls>>

\* a caller that invokes run_pipeline up to MaxRuns times
RunStart == run_calls < MaxRuns /\ StartRun

\* a caller that invokes run_pipeline up to MaxRepeats times
RunAgain == run_calls < MaxRepeats /\ StartRun

\* run_pipeline handed an argument without a length (a number): len() raises
\* after the status update, the handler counts a failure and re-raises, and
\* the caller gets no record
RunRaise ==
    /\ pc \in {"idle", "returned", "raised"}
    /\ run_calls < MaxRepeats
    /\ run_calls' = run_calls + 1
    /\ inspiration_data' = [given |-> TRUE, items |-> <<>>, sized |-> FALSE]
    /\ pipeline_status' = [pipeline_status EXCEPT !.last_run = now,
                                                  !.total_runs = @ + 1,
                                                  !.failure_count = @ + 1]
    /\ results' = [EmptyResults EXCEPT !.pipeline_run_id = now]
    /\ pc' = "raised"
    /\ inspirations' = <<>>
    /\ outlines' = <<>>
    /\ articles' = <<>>
    /\ formatted_contents' = <<>>
    /\ item' = 1
    /\ pitem' = 1
    /\ aggregate' = EmptyAggregate
    /\ calls' = <<>>
    /\ dispatches' = <<>>
    /\ UNCHANGED <<config, instances, disk, api_log, platform_configs, publish_history,
                   history_file, now, run_files, faults, direct_calls>>

publisherVars == <<platform_configs, publish_history, history_file, dispatches, direct_calls>>

\* one iteration of the loop of _generate_outlines
OutlineItem ==
    /\ pc = "outline"
    /\ config.outline_enabled
    /\ item <= Len(inspirations)
    /\ \E outcome \in Outcomes :
         /\ outcome # "ok" => faults < MaxFaults
         /\ faults' = IF outcome = "ok" THEN faults ELSE faults + 1
         /\ LET path == ArtifactPath("outlines", "-", results.pipeline_run_id, item - 1)
            IN  /\ results' = RecordItem(results, "outline", outcome, path,
                                         "outline_save_failed", "outline_exception")
                /\ outlines' = IF outcome = "ok"
                               THEN Append(outlines, [src |-> inspirations[item], file_path |-> path])
                               ELSE outlines
                /\ disk' = IF outcome = "ok"
                           THEN WriteFile(disk, path, [src |-> inspirations[item]])
                           ELSE disk
         /\ calls' = Append(calls, [op |-> "outline", src |-> inspirations[item],
                                    platform |-> "-", outcome |-> outcome])
    /\ item' = item + 1
    /\ UNCHANGED <<config, run_calls, instances, inspiration_data, api_log, now, pipeline_status, pc, inspirations, articles,
                   formatted_contents, pitem, aggregate, run_files, publisherVars>>

\* mutant: the outline loop may be left before its last item
OutlineStageEnd_Early ==
    /\ pc = "outline"
    /\ IF outlines = <<>>
       THEN /\ results' = [results EXCEPT !.errors = Append(@, "outline_stage_failed")]
            /\ pc' = "returned"
       ELSE /\ results' = results
            /\ pc' = "write"
    /\ item' = 1
    /\ UNCHANGED <<config, run_calls, instances, disk, inspiration_data, api_log, now, pipeline_status, inspirations, outlines, articles,
                   formatted_contents, pitem, aggregate, run_files, faults, calls,
                   publisherVars>>

\* _generate_outlines returns; run_pipeline tests its result
OutlineStageEnd ==
    /\ pc = "outline"
    /\ ~config.outline_enabled \/ item > Len(inspirations)
    /\ IF outlines = <<>>
       THEN /\ results' = [results EXCEPT !.errors = Append(@, "outline_stage_failed")]
            /\ pc' = "returned"
       ELSE /\ results' = results
            /\ pc' = "write"
    /\ item' = 1
    /\ UNCHANGED <<config, run_calls, instances, disk, inspiration_data, api_log, now, pipeline_status, inspirations, outlines, articles,
                   formatted_contents, pitem, aggregate, run_files, faults, calls,
                   publisherVars>>

\* one iteration of the loop of _write_contents
WriteItem ==
    /\ pc = "write"
    /\ config.writer_enabled
    /\ item <= Len(outlines)
    /\ \E outcome \in Outcomes :
         /\ outcome # "ok" => faults < MaxFaults
         /\ faults' = IF outcome = "ok" THEN faults ELSE faults + 1
         /\ LET path == ArtifactPath("articles", "-", results.pipeline_run_id, item - 1)
            IN  /\ results' = RecordItem(results, "writer", outcome, path,
                                         "article_save_failed", "writer_exception")
                /\ articles' = IF outcome = "ok"
                               THEN Append(articles, [src |-> outlines[item].src, file_path |-> path])
                               ELSE articles
                /\ disk' = IF outcome = "ok"
                           THEN WriteFile(disk, path, [src |-> outlines[item].src])
                           ELSE disk
         /\ calls' = Append(calls, [op |-> "write", src |-> outlines[item].src,
                                    platform |-> "-", outcome |-> outcome])
    /\ item' = item + 1
    /\ UNCHANGED <<config, run_calls, instances, inspiration_data, api_log, now, pipeline_status, pc, inspirations, outlines,
                   formatted_contents, pitem, aggregate, run_files, publisherVars>>

\* mutant: run_pipeline goes on to the format stage without articles
WriteStageEnd_NoAbort ==
    /\ pc = "write"
    /\ ~config.writer_enabled \/ item > Len(outlines)
    /\ results' = [results EXCEPT !.total_articles = Len(articles)]
    /\ pc' = "format"
    /\ item' = 1
    /\ pitem' = 1
    /\ UNCHANGED <<config, run_calls, instances, disk, inspiration_data, api_log, now, pipeline_status, inspirations, outlines, articles,
                   formatted_contents, aggregate, run_files, faults, calls, publisherVars>>

\* _write_contents returns; run_pipeline tests its result
WriteStageEnd ==
    /\ pc = "write"
    /\ ~config.writer_enabled \/ item > Len(outlines)
    /\ IF articles = <<>>
       THEN /\ results' = [results EXCEPT !.errors = Append(@, "writer_stage_failed")]
            /\ pc' = "returned"
       ELSE /\ results' = [results EXCEPT !.total_articles = Len(articles)]
            /\ pc' = "format"
    /\ item' = 1
    /\ pitem' = 1
    /\ UNCHANGED <<config, run_calls, instances, disk, inspiration_data, api_log, now, pipeline_status, inspirations, outlines, articles,
                   formatted_contents, aggregate, run_files, faults, calls, publisherVars>>

\* one iteration of the inner loop of _format_contents
FormatItem ==
    /\ pc = "format"
    /\ config.formatter_enabled
    /\ item <= Len(articles)
    /\ pitem <= Len(config.default_format_platforms)
    /\ LET platform == config.default_format_platforms[pitem]
           path == ArtifactPath("formatted", platform, results.pipeline_run_id, item - 1)
       IN  /\ \E outcome \in Outcomes :
                /\ outcome # "ok" => faults < MaxFaults
                /\ faults' = IF outcome = "ok" THEN faults ELSE faults + 1
                /\ results' = RecordItem(results, "formatter", outcome, path,
                                         "formatted_save_failed", "formatter_exception")
                /\ formatted_contents' =
                      IF outcome = "ok"
                      THEN Append(formatted_contents,
                                  [platform |-> FormatPlatformField(platform),
                                   src |-> articles[item].src, file_path |-> path])
                      ELSE formatted_contents
                /\ disk' = IF outcome = "ok"
                           THEN WriteFile(disk, path, [src |-> articles[item].src])
                           ELSE disk
                /\ calls' = Append(calls, [op |-> "format", src |-> articles[item].src,
                                           platform |-> platform, outcome |-> outcome])
    /\ IF pitem < Len(config.default_format_platforms)
       THEN item' = item /\ pitem' = pitem + 1
       ELSE item' = item + 1 /\ pitem' = 1
    /\ UNCHANGED <<config, run_calls, instances, inspiration_data, api_log, now, pipeline_status, pc, inspirations, outlines, articles,
                   aggregate, run_files, publisherVars>>

\* _format_contents returns; run_pipeline tests its result and auto_publish
FormatStageEnd ==
    /\ pc = "format"
    /\ \/ ~config.formatter_enabled
       \/ item > Len(articles)
       \/ Len(config.default_format_platforms) = 0
    /\ IF formatted_contents = <<>>
       THEN /\ results' = [results EXCEPT !.errors = Append(@, "formatter_stage_failed")]
            /\ pc' = "returned"
       ELSE /\ results' = results
            /\ pc' = IF config.auto_publish THEN "publish" ELSE "finish"
    /\ item' = 1
    /\ pitem' = 1
    /\ UNCHANGED <<config, run_calls, instances, disk, inspiration_data, api_log, now, pipeline_status, inspirations, outlines, articles,
                   formatted_contents, aggregate, run_files, faults, calls, publisherVars>>

\* mutant: the publisher's enabled flag is not consulted
PublishBegin_IgnoreGate ==
    /\ pc = "publish"
    /\ aggregate' = [EmptyAggregate EXCEPT
                        !.total_platforms = Len(config.publish_platforms)]
    /\ results' = results
    /\ pc' = "dispatch"
    /\ item' = 1
    /\ UNCHANGED <<config, run_calls, instances, disk, inspiration_data, api_log, now, pipeline_status, inspirations, outlines, articles,
                   formatted_contents, pitem, run_files, faults, calls, publisherVars>>

\* _publish_contents up to its loop
PublishBegin ==
    /\ pc = "publish"
    /\ IF ~config.publisher_enabled
       THEN /\ aggregate' = aggregate
            /\ results' = [results EXCEPT !.total_published = 0]
            /\ pc' = "finish"
       ELSE /\ aggregate' = [EmptyAggregate EXCEPT
                                !.total_platforms = Len(config.publish_platforms)]
            /\ results' = results
            /\ pc' = "dispatch"
    /\ item' = 1
    /\ UNCHANGED <<config, run_calls, instances, disk, inspiration_data, api_log, now, pipeline_status, inspirations, outlines, articles,
                   formatted_contents, pitem, run_files, faults, calls, publisherVars>>

\* mutant: every formatted content is handed to every publish platform
PlatformContents_All(contents, platform) == contents

\* the contents _publish_contents selects for a platform
PlatformContents(contents, platform) ==
    SelectSeq(contents, LAMBDA c : c.platform = platform)

\* mutant: failures of a batch are added to the successes
MergeTally_AllSuccess(total, platform_results) ==
    [p \in DOMAIN total \cup DOMAIN platform_results |->
        LET old == IF p \in DOMAIN total THEN total[p] ELSE [success |-> 0, failure |-> 0]
            add == IF p \in DOMAIN platform_results
                   THEN platform_results[p] ELSE [success |-> 0, failure |-> 0]
        IN  [success |-> old.success + add.success + add.failure, failure |-> old.failure]]

\* the per-platform tallies of one batch report added to the aggregate's
MergeTally(total, platform_results) ==
    [p \in DOMAIN total \cup DOMAIN platform_results |->
        LET old == IF p \in DOMAIN total THEN total[p] ELSE [success |-> 0, failure |-> 0]
            add == IF p \in DOMAIN platform_results
                   THEN platform_results[p] ELSE [success |-> 0, failure |-> 0]
        IN  [success |-> old.success + add.success, failure |-> old.failure + add.failure]]

\* one iteration of the loop of _publish_contents
PublishGroup ==
    /\ pc = "dispatch"
    /\ item <= Len(config.publish_platforms)
    /\ LET platform == config.publish_platforms[item]
           platform_contents == PlatformContents(formatted_contents, platform)
       IN  IF platform_contents = <<>>
           THEN UNCHANGED <<aggregate, publish_history, history_file, dispatches>>
           ELSE \E save_ok \in BOOLEAN :
                \E env \in EnvChoices(platform_configs, platform_contents, <<platform>>) :
                   LET publish_results ==
                          PublishLoop(platform_configs, publish_history, DayOf(now),
                                      platform_contents, <<platform>>, env)
                   IN  /\ PublishToPlatforms(platform_contents, <<platform>>, env,
                                             save_ok, publish_results)
                       /\ aggregate' =
                            [aggregate EXCEPT
                               !.total_contents = @ + publish_results.total_contents,
                               !.success_count = @ + publish_results.success_count,
                               !.failure_count = @ + publish_results.failure_count,
                               !.details = @ \o publish_results.details,
                               !.platform_results =
                                   MergeTally(@, publish_results.platform_results)]
                       /\ dispatches' = Append(dispatches,
                                               [contents |-> platform_contents,
                                                platforms |-> <<platform>>,
                                                report |-> publish_results,
                                                env |-> env, saved |-> save_ok])
    /\ item' = item + 1
    /\ UNCHANGED <<config, run_calls, instances, disk, inspiration_data, api_log, platform_configs, now, pipeline_status, pc, results,
                   inspirations, outlines, articles, formatted_contents, pitem,
                   run_files, faults, calls, direct_calls>>

\* the try block of _publish_contents raises while a group is dispatched
\* (publish_to_platforms re-raises whatever its body raises, before the
\* history append): the handler of _publish_contents sets the failed counter,
\* appends an error and returns {}
PublishRaise ==
    /\ pc = "dispatch"
    /\ item <= Len(config.publish_platforms)
    /\ PlatformContents(formatted_contents, config.publish_platforms[item]) # <<>>
    /\ faults < MaxFaults
    /\ faults' = faults + 1
    /\ results' = [results EXCEPT
                      !.module_results["publisher"].failed = Len(formatted_contents),
                      !.errors = Append(@, "publish_exception"),
                      !.total_published = 0]
    /\ pc' = "finish"
    /\ UNCHANGED <<config, run_calls, instances, disk, inspiration_data, api_log, now, pipeline_status, inspirations, outlines, articles,
                   formatted_contents, item, pitem, aggregate, run_files, calls,
                   publisherVars>>

\* the end of _publish_contents and run_pipeline's use of its result
PublishStageEnd ==
    /\ pc = "dispatch"
    /\ item > Len(config.publish_platforms)
    /\ results' = [results EXCEPT
                      !.module_results["publisher"] =
                          [processed |-> aggregate.total_contents,
                           success |-> aggregate.success_count,
                           failed |-> aggregate.failure_count],
                      !.total_published = aggregate.success_count]
    /\ pc' = "finish"
    /\ UNCHANGED <<config, run_calls, instances, disk, inspiration_data, api_log, now, pipeline_status, inspirations, outlines, articles,
                   formatted_contents, item, pitem, aggregate, run_files, faults,
                   calls, publisherVars>>

GenerateSummary(res) ==
    [overall_success |-> Len(res.errors) = 0, total_errors |-> Len(res.errors)]

\* mutant: a run that reaches the end counts as a success whatever its errors
Finish_AlwaysSuccess ==
    /\ pc = "finish"
    /\ \E save_ok \in BOOLEAN :
         LET final == [results EXCEPT !.summary = GenerateSummary(results)]
             results_file == ArtifactPath("runs", "-", final.pipeline_run_id, 0)
         IN  IF save_ok
             THEN /\ run_files' = (final.pipeline_run_id :>
                                      DictGet(run_files, final.pipeline_run_id, 0) + 1) @@ run_files
                  /\ disk' = WriteFile(disk, results_file, final)
                  /\ results' = [final EXCEPT !.output_files = Append(@, results_file)]
             ELSE /\ run_files' = run_files
                  /\ disk' = disk
                  /\ results' = final
    /\ pipeline_status' = [pipeline_status EXCEPT !.success_count = @ + 1]
    /\ pc' = "returned"
    /\ UNCHANGED <<config, run_calls, instances, inspiration_data, api_log, now, inspirations, outlines, articles, formatted_contents,
                   item, pitem, aggregate, faults, calls, publisherVars>>

\* run_pipeline from the end of the stages to its return: _generate_summary,
\* _save_results (save_ok: the run file is written) and the status update
Finish ==
    /\ pc = "finish"
    /\ \E save_ok \in BOOLEAN :
         LET final == [results EXCEPT !.summary = GenerateSummary(results)]
             results_file == ArtifactPath("runs", "-", final.pipeline_run_id, 0)
         IN  IF save_ok
             THEN /\ run_files' = (final.pipeline_run_id :>
                                      DictGet(run_files, final.pipeline_run_id, 0) + 1) @@ run_files
                  /\ disk' = WriteFile(disk, results_file, final)
                  /\ results' = [final EXCEPT !.output_files = Append(@, results_file)]
             ELSE /\ run_files' = run_files
                  /\ disk' = disk
                  /\ results' = final
    /\ pipeline_status' = IF results.errors = <<>>
                          THEN [pipeline_status EXCEPT !.success_count = @ + 1]
                          ELSE [pipeline_status EXCEPT !.failure_count = @ + 1]
    /\ pc' = "returned"
    /\ UNCHANGED <<config, run_calls, instances, inspiration_data, api_log, now, inspirations, outlines, articles, formatted_contents,
                   item, pitem, aggregate, faults, calls, publisherVars>>

\* runs in which no exception reaches run_pipeline or _publish_contents
Next ==
    \/ RunStart
    \/ OutlineItem \/ OutlineStageEnd
    \/ WriteItem \/ WriteStageEnd
    \/ FormatItem \/ FormatStageEnd
    \/ PublishBegin \/ PublishGroup \/ PublishStageEnd
    \/ Finish
    \/ Tick

Spec == Init /\ [][Next]_vars

\* ------------------------------------------------------ stages switched off
InitGated == \E file \in GatedConfigFiles : InitWith(file, 0)

SpecGated == InitGated /\ [][Next]_vars

\* ------------------------------------------------------------ repeated runs
\* one pipeline object whose run_pipeline is invoked again and again, the
\* invocations that raise and the dispatches that raise included
InitRuns == InitWith(WechatConfigFile, 0)

NextRuns ==
    \/ RunAgain \/ RunRaise
    \/ OutlineItem \/ OutlineStageEnd
    \/ WriteItem \/ WriteStageEnd
    \/ FormatItem \/ FormatStageEnd
    \/ PublishBegin \/ PublishGroup \/ PublishRaise \/ PublishStageEnd
    \/ Finish
    \/ Tick

SpecRuns == InitRuns /\ [][NextRuns]_vars

\* ================================================================== claims
Last(seq) == seq[Len(seq)]

Srcs(seq) == [i \in DOMAIN seq |-> seq[i].src]

Increasing(seq) == \A i, j \in DOMAIN seq : i < j => seq[i] < seq[j]

NonDecreasing(seq) == \A i, j \in DOMAIN seq : i < j => seq[i] <= seq[j]

CountErrors(kinds) == Len(SelectSeq(results.errors, LAMBDA e : e \in kinds))

CallsOf(ops) == SelectSeq(calls, LAMBDA c : c.op \in ops)

ItemErrorKinds ==
    {"outline_save_failed", "outline_exception", "article_save_failed", "writer_exception",
     "formatted_save_failed", "formatter_exception"}

StageErrorKinds == {"outline_stage_failed", "writer_stage_failed", "formatter_stage_failed"}

Counters(module) == results.module_results[module]

ZeroCounters(module) == Counters(module) = [processed |-> 0, success |-> 0, failed |-> 0]

\* successful publishes to a platform that the entries of a day record
SuccessesOn(history, platform, day) ==
    LET sum[k \in 0..Len(history)] ==
            IF k = 0 THEN 0
            ELSE sum[k - 1] +
                 (IF DayOf(history[k].timestamp) = day
                     /\ platform \in DOMAIN history[k].platform_results
                  THEN history[k].platform_results[platform].success ELSE 0)
    IN  sum[Len(history)]

\* (content, platform) pairs recorded by the dispatches of the run
RecordedAttempts ==
    LET perCall(d) ==
            LET sum[i \in 0..Len(d.report.details)] ==
                    IF i = 0 THEN 0
                    ELSE sum[i - 1] + Cardinality(DOMAIN d.report.details[i].platform_results)
            IN  sum[Len(d.report.details)]
        total[k \in 0..Len(dispatches)] ==
            IF k = 0 THEN 0 ELSE total[k - 1] + perCall(dispatches[k])
    IN  total[Len(dispatches)]

\* the stage has returned in the current run
OutlineDone == pc \notin {"idle", "outline"} /\ results.total_inspirations > 0
WriterDone == OutlineDone /\ outlines # <<>> /\ pc # "write"
FormatterDone == WriterDone /\ articles # <<>> /\ pc # "format"
PublishDone == FormatterDone /\ pc \in {"finish", "returned"} /\ aggregate.total_platforms > 0

\* ---------------------------------------------------------------------- C1
\* C1: when a batch of n > max_articles_per_run inspirations is given and the
\* outline stage is enabled, the outline transform is called on the first
\* max_articles_per_run inspirations, in order, and on no other; once the
\* stage has returned its processed counter equals max_articles_per_run; and
\* errors holds nothing but one entry per failed item and at most one
\* stage-failure entry (the truncation adds none).
C1_BatchCapped ==
    (pc # "idle" /\ config.outline_enabled
        /\ results.total_inspirations > config.max_articles_per_run) =>
        LET cap == config.max_articles_per_run
            passed == CallsOf({"outline"})
        IN  /\ Len(passed) <= cap
            /\ \A i \in 1..Len(passed) : passed[i].src = i
            /\ Counters("outline").processed = Len(passed)
            /\ pc # "outline" => Counters("outline").processed = cap
            /\ CountErrors(ItemErrorKinds) =
                  Counters("outline").failed + Counters("writer").failed
                    + Counters("formatter").failed
            /\ CountErrors(StageErrorKinds) <= 1
            /\ Len(results.errors) = CountErrors(ItemErrorKinds \cup StageErrorKinds)

\* C1 witness: a run given 3 inspirations under a cap of 2 has finished with
\* 2 items processed by the outline stage and no error
C1_Witness ==
    /\ pc = "returned"
    /\ results.total_inspirations = 3
    /\ config.max_articles_per_run = 2
    /\ Counters("outline").processed = 2
    /\ results.errors = <<>>
    /\ DOMAIN results.summary # {}

\* ---------------------------------------------------------------------- C2
\* C2 (as claimed): publish_to_platforms publishes a content only on the
\* platform of its own platform field: no publish method is invoked for a
\* pair (content, platform) whose platforms differ.
C2_OnlyMatchingPublished ==
    \A k \in 1..Len(dispatches) :
        LET d == dispatches[k]
        IN  \A i \in 1..Len(d.report.details) :
                \A p \in DOMAIN d.report.details[i].platform_results :
                    MethodInvoked(d.report.details[i].platform_results[p])
                        => d.contents[i].platform = p

\* C2 (amended): publish_to_platforms records one attempt for every pair of a
\* content and a requested platform, filed under the requested platform,
\* whatever the content's own platform field: an attempt is refused as
\* disabled exactly when the requested platform is not enabled.
C2_EveryPairAttempted ==
    \A k \in 1..Len(dispatches) :
        LET d == dispatches[k]
        IN  /\ Len(d.report.details) = Len(d.contents)
            /\ \A i \in 1..Len(d.contents) :
                 LET content_result == d.report.details[i]
                 IN  /\ content_result.content_index = i - 1
                     /\ DOMAIN content_result.platform_results = Range(d.platforms)
                     /\ \A p \in Range(d.platforms) :
                          /\ content_result.platform_results[p].platform = p
                          /\ content_result.platform_results[p].error = "platform_disabled"
                                <=> ~PlatformConfigGet(platform_configs, p).enabled

\* C2 witness: a wechat-formatted content was published on zhihu
C2_Witness ==
    \E k \in 1..Len(dispatches) :
        LET d == dispatches[k]
        IN  /\ d.platforms = <<"zhihu">>
            /\ Len(d.contents) = 2
            /\ d.contents[1].platform = "zhihu"
            /\ d.contents[2].platform = "wechat"
            /\ d.report.details[2].platform_results["zhihu"].success

\* ---------------------------------------------------------------------- C3
\* the history as it was when the last publish_to_platforms call began
HistoryBeforeLastCall == SubSeq(publish_history, 1, Len(publish_history) - 1)

\* C3: when the history records rate_limit or more successful publishes to an
\* enabled platform on the day of a dispatch, every attempt of that dispatch
\* on the platform is refused as rate limited.
C3_RateLimitEnforced ==
    (dispatches # <<>> /\ publish_history # <<>>) =>
        LET d == Last(dispatches)
            day == DayOf(Last(publish_history).timestamp)
        IN  \A p \in Range(d.platforms) :
                LET platform_config == PlatformConfigGet(platform_configs, p)
                IN  (/\ platform_config.enabled
                     /\ platform_config.rate_limit # NoRateLimit
                     /\ SuccessesOn(HistoryBeforeLastCall, p, day) >= platform_config.rate_limit)
                    => \A i \in 1..Len(d.report.details) :
                          d.report.details[i].platform_results[p].error = "rate_limited"

\* ---------------------------------------------------------------------- C4
\* C4: the successful publishes to a platform recorded for one day never
\* exceed the platform's rate_limit.
C4_DailyQuota ==
    \A p \in RegistryPlatforms, day \in 0..DayOf(MaxTime) :
        platform_configs[p].rate_limit # NoRateLimit
            => SuccessesOn(publish_history, p, day) <= platform_configs[p].rate_limit

\* ---------------------------------------------------------------------- C5
\* C5: the history in memory and the history file never hold more than 100
\* entries, and an append to a history of 100 entries leaves 100 entries: the
\* former entries 2..100 in their order, then the new entry; the file, when
\* it is rewritten, holds the same.
C5_HistoryCapped ==
    /\ [](Len(publish_history) <= HistoryCap /\ Len(history_file) <= HistoryCap)
    /\ [][(direct_calls' = direct_calls + 1 /\ Len(publish_history) = HistoryCap) =>
            /\ Len(publish_history') = HistoryCap
            /\ SubSeq(publish_history', 1, HistoryCap - 1) = Tail(publish_history)
            /\ Last(publish_history').timestamp = now
            /\ history_file' \in {history_file, publish_history'}]_vars

\* C5 witness: the file holds 100 entries, the newest written by the append
\* and the oldest the second of a history of 100
C5_Witness ==
    /\ Len(history_file) = HistoryCap
    /\ Last(history_file).timestamp >= 0
    /\ history_file[1].timestamp = 1 - HistoryCap

\* ---------------------------------------------------------------------- C6
\* the counters of a stage that was given n items and yielded the survivors
StageAccounts(module, n, survivors, kinds) ==
    /\ Counters(module).processed = n
    /\ Counters(module).success = Len(survivors)
    /\ Counters(module).failed = n - Len(survivors)
    /\ CountErrors(kinds) = Counters(module).failed

\* C6: an enabled outline, write or format stage processes every item of its
\* batch whatever fails: processed = n, success = the number of surviving
\* outputs, failed = n - success, errors holds one entry per failed item, the
\* survivors keep the input order, and when some but not all items failed the
\* run does not stop at that stage.
C6_FailSoft ==
    /\ (OutlineDone /\ config.outline_enabled) =>
          /\ StageAccounts("outline", Len(inspirations), outlines,
                           {"outline_save_failed", "outline_exception"})
          /\ Increasing(Srcs(outlines))
          /\ Range(Srcs(outlines)) \subseteq Range(inspirations)
          /\ outlines # <<>> => "outline_stage_failed" \notin Range(results.errors)
    /\ (WriterDone /\ config.writer_enabled) =>
          /\ StageAccounts("writer", Len(outlines), articles,
                           {"article_save_failed", "writer_exception"})
          /\ Increasing(Srcs(articles))
          /\ Range(Srcs(articles)) \subseteq Range(Srcs(outlines))
          /\ articles # <<>> => "writer_stage_failed" \notin Range(results.errors)
    /\ (FormatterDone /\ config.formatter_enabled) =>
          /\ StageAccounts("formatter",
                           Len(articles) * Len(config.default_format_platforms),
                           formatted_contents,
                           {"formatted_save_failed", "formatter_exception"})
          /\ NonDecreasing(Srcs(formatted_contents))
          /\ Range(Srcs(formatted_contents)) \subseteq Range(Srcs(articles))
          /\ formatted_contents # <<>> => "formatter_stage_failed" \notin Range(results.errors)
    /\ (pc = "returned" /\ StageErrorKinds \cap Range(results.errors) = {}
            /\ results.total_inspirations > 0) => DOMAIN results.summary # {}

\* C6 witness: of 3 inspirations the 2nd raised in the outline stage; the run
\* went through all stages with outlines 1 and 3 and exactly one error
C6_Witness ==
    /\ pc = "returned"
    /\ Len(inspirations) = 3
    /\ Srcs(outlines) = <<1, 3>>
    /\ results.errors = <<"outline_exception">>
    /\ Counters("outline") = [processed |-> 3, success |-> 2, failed |-> 1]
    /\ Counters("writer").processed = 2
    /\ DOMAIN results.summary # {}

\* ---------------------------------------------------------------------- C7
\* C7: a run is in a later stage only with surviving output of the stage
\* before; a run whose outline, write or format stage yielded nothing has
\* returned with the stage's failure as its last error, without a summary,
\* with no transform of a later stage called, no dispatch made and the
\* counters of all later stages zero.
C7_StageExhausted ==
    /\ pc \in {"write", "format", "publish", "dispatch", "finish"} => outlines # <<>>
    /\ pc \in {"format", "publish", "dispatch", "finish"} => articles # <<>>
    /\ pc \in {"publish", "dispatch", "finish"} => formatted_contents # <<>>
    /\ (OutlineDone /\ outlines = <<>>) =>
          /\ pc = "returned"
          /\ Last(results.errors) = "outline_stage_failed"
          /\ CallsOf({"write", "format"}) = <<>>
          /\ ZeroCounters("writer") /\ ZeroCounters("formatter") /\ ZeroCounters("publisher")
          /\ dispatches = <<>> /\ results.summary = EmptyDict
    /\ (WriterDone /\ articles = <<>>) =>
          /\ pc = "returned"
          /\ Last(results.errors) = "writer_stage_failed"
          /\ CallsOf({"format"}) = <<>>
          /\ ZeroCounters("formatter") /\ ZeroCounters("publisher")
          /\ dispatches = <<>> /\ results.summary = EmptyDict
    /\ (FormatterDone /\ formatted_contents = <<>>) =>
          /\ pc = "returned"
          /\ Last(results.errors) = "formatter_stage_failed"
          /\ ZeroCounters("publisher")
          /\ dispatches = <<>> /\ results.summary = EmptyDict

\* C7 witness: the only outline failed in the enabled write stage and the run
\* has returned
C7_Witness ==
    /\ pc = "returned"
    /\ config.writer_enabled
    /\ outlines # <<>>
    /\ articles = <<>>
    /\ Counters("writer") = [processed |-> 1, success |-> 0, failed |-> 1]

\* ---------------------------------------------------------------------- C8
\* the case of C8: one publish platform X, enabled, nothing published before
\* this run, and formatted contents for X and for another platform
OnePlatformCase ==
    /\ PublishDone
    /\ Len(config.publish_platforms) = 1
    /\ PlatformConfigGet(platform_configs, config.publish_platforms[1]).enabled
    /\ Len(publish_history) <= 1
    /\ \E c \in Range(formatted_contents) : c.platform = config.publish_platforms[1]
    /\ \E c \in Range(formatted_contents) : c.platform # config.publish_platforms[1]

ContentsFor(platform) == SelectSeq(formatted_contents, LAMBDA c : c.platform = platform)

\* C8 (as claimed): in that case the aggregate counts the X-tagged contents
\* and its platform_results are exactly {X: {success: that number, failure: 0}}.
C8_AllPublished ==
    OnePlatformCase =>
        LET X == config.publish_platforms[1]
        IN  /\ aggregate.total_contents = Len(ContentsFor(X))
            /\ aggregate.platform_results =
                  (X :> [success |-> Len(ContentsFor(X)), failure |-> 0])

\* C8 (amended): in that case the aggregate counts the X-tagged contents, its
\* platform_results hold X alone with success + failure = that number and
\* success = the number of X attempts whose publish call succeeded, and the
\* only dispatch is the one of the X-tagged contents to X.
C8_TalliedPerOutcome ==
    OnePlatformCase =>
        LET X == config.publish_platforms[1]
            succeeded == SelectSeq(aggregate.details,
                                   LAMBDA cr : cr.platform_results[X].success)
        IN  /\ aggregate.total_contents = Len(ContentsFor(X))
            /\ DOMAIN aggregate.platform_results = {X}
            /\ aggregate.platform_results[X].success + aggregate.platform_results[X].failure
                  = Len(ContentsFor(X))
            /\ aggregate.platform_results[X].success = Len(succeeded)
            /\ aggregate.success_count = Len(succeeded)
            /\ results.total_published = Len(succeeded)
            /\ Len(aggregate.details) = Len(ContentsFor(X))
            /\ \A i \in 1..Len(aggregate.details) :
                  DOMAIN aggregate.details[i].platform_results = {X}
            /\ Len(dispatches) = 1
            /\ dispatches[1].platforms = <<X>>
            /\ \A i \in 1..Len(dispatches[1].contents) : dispatches[1].contents[i].platform = X

\* C8 witness: the one wechat content of a run publishing to wechat alone was
\* refused by the remote API and is tallied as a failure
C8_Witness ==
    /\ OnePlatformCase
    /\ pc = "returned"
    /\ config.publish_platforms = <<"wechat">>
    /\ aggregate.platform_results = ("wechat" :> [success |-> 0, failure |-> 1])
    /\ aggregate.details[1].platform_results["wechat"].error = "remote_failure"

\* ---------------------------------------------------------------------- C9
\* C9: every dispatch of the publish stage names one platform of
\* publish_platforms and carries exactly the formatted contents whose
\* platform field is that platform; with distinct publish platforms the
\* attempts of a run are at most as many as the formatted contents.
C9_GroupedDispatch ==
    /\ \A k \in 1..Len(dispatches) :
          LET d == dispatches[k]
          IN  /\ Len(d.platforms) = 1
              /\ d.platforms[1] \in Range(config.publish_platforms)
              /\ d.contents = SelectSeq(formatted_contents,
                                        LAMBDA c : c.platform = d.platforms[1])
    /\ Cardinality(Range(config.publish_platforms)) = Len(config.publish_platforms)
          => RecordedAttempts <= Len(formatted_contents)

\* C9 witness: a finished publish stage that dispatched while a formatted
\* content of a platform outside publish_platforms existed
C9_Witness ==
    /\ PublishDone
    /\ dispatches # <<>>
    /\ \E c \in Range(formatted_contents) : c.platform \notin Range(config.publish_platforms)
    /\ RecordedAttempts < Len(formatted_contents)

\* --------------------------------------------------------------------- C10
\* C10: when run_pipeline has returned its record, exactly one run file
\* keyed by the record's run id has been written.
C10_RunRecordPersisted ==
    pc = "returned" => DictGet(run_files, results.pipeline_run_id, 0) = 1

\* --------------------------------------------------------------------- C11
\* C11: every publish_to_platforms call appends exactly one entry to the
\* publish history, after the entries already there, whatever the outcome of
\* its attempts, and the entry's total_contents, success_count, failure_count
\* and platform_results are those of the report the call returns.
C11_EveryCallRecorded ==
    [][(direct_calls' = direct_calls + 1 /\ Len(publish_history) < HistoryCap) =>
          LET entry == Last(publish_history')
              report == Last(dispatches').report
          IN  /\ Len(publish_history') = Len(publish_history) + 1
              /\ SubSeq(publish_history', 1, Len(publish_history)) = publish_history
              /\ entry.timestamp = now
              /\ entry.total_contents = report.total_contents
              /\ entry.success_count = report.success_count
              /\ entry.failure_count = report.failure_count
              /\ entry.platform_results = report.platform_results]_vars

\* C11 witness: a second call whose attempts all failed is the second entry
\* of the history, after the entry of a call with a success
C11_Witness ==
    /\ direct_calls = 2
    /\ Len(publish_history) = 2
    /\ publish_history[1].success_count > 0
    /\ Last(dispatches).report.success_count = 0
    /\ Last(dispatches).report.failure_count > 0
    /\ publish_history[2].failure_count = Last(dispatches).report.failure_count
    /\ publish_history[2].success_count = 0

\* --------------------------------------------------------------------- C12
\* every attempt of the report on the platform failed (and there was one)
AllAttemptsFailed(report, platform) ==
    /\ report.details # <<>>
    /\ \A i \in 1..Len(report.details) :
          /\ platform \in DOMAIN report.details[i].platform_results
          /\ ~report.details[i].platform_results[platform].success

\* C12: a publish_to_platforms call all of whose attempts on a platform
\* failed leaves the platform's count of today's successful publishes as it
\* was, both the count the rate check computes and the successes the history
\* records, so the rate check answers after the call as it did before it.
C12_FailuresKeepQuota ==
    [][(direct_calls' = direct_calls + 1 /\ Len(publish_history) < HistoryCap) =>
          \A p \in RegistryPlatforms :
              AllAttemptsFailed(Last(dispatches').report, p) =>
                  LET today == DayOf(now)
                  IN  /\ Len(TodayPublishes(publish_history', p, today))
                            = Len(TodayPublishes(publish_history, p, today))
                      /\ SuccessesOn(publish_history', p, today)
                            = SuccessesOn(publish_history, p, today)
                      /\ CheckRateLimit(platform_configs, publish_history', p, today)
                            = CheckRateLimit(platform_configs, publish_history, p, today)]_vars

\* C12 witness: after a call whose wechat attempts all failed at the remote
\* API, a later call on the same day published on wechat
C12_Witness ==
    /\ Len(publish_history) = 2
    /\ platform_configs["wechat"].enabled
    /\ DayOf(publish_history[1].timestamp) = DayOf(publish_history[2].timestamp)
    /\ "wechat" \in DOMAIN publish_history[1].platform_results
    /\ publish_history[1].platform_results["wechat"] = [success |-> 0, failure |-> 2]
    /\ "wechat" \in DOMAIN publish_history[2].platform_results
    /\ publish_history[2].platform_results["wechat"].success > 0

\* --------------------------------------------------------------------- C13
\* C13: every attempt on an enabled platform whose publish_method is "local"
\* (the seeded "file" platform) is a successful file publish; no file write
\* fails in the runs checked, since none is attempted.
C13_LocalPublishSucceeds ==
    \A k \in 1..Len(dispatches) :
        LET d == dispatches[k]
        IN  \A i \in 1..Len(d.report.details), p \in Range(d.platforms) :
                LET platform_config == PlatformConfigGet(platform_configs, p)
                IN  (platform_config.enabled /\ platform_config.publish_method = "local")
                        => /\ d.report.details[i].platform_results[p].success
                           /\ d.report.details[i].platform_results[p].method = "file"

\* --------------------------------------------------------------------- C14
\* C14 (as claimed): a pair whose requested platform is disabled is skipped
\* and is no failure: the publish method is not invoked and the platform's
\* failure tally in the report stays 0.
C14_DisabledNotCounted ==
    \A k \in 1..Len(dispatches) :
        LET d == dispatches[k]
        IN  \A p \in Range(d.platforms) :
                ~PlatformConfigGet(platform_configs, p).enabled =>
                    /\ \A i \in 1..Len(d.report.details) :
                          ~MethodInvoked(d.report.details[i].platform_results[p])
                    /\ p \in DOMAIN d.report.platform_results
                          => d.report.platform_results[p].failure = 0

\* C14 (amended): a pair whose requested platform is disabled is recorded as
\* a failed attempt with the disabled outcome, without the publish method
\* being invoked: the platform's tally is success 0 and one failure per
\* content, and success_count + failure_count counts every pair of the call.
C14_DisabledCountedAsFailure ==
    \A k \in 1..Len(dispatches) :
        LET d == dispatches[k]
        IN  /\ d.report.success_count + d.report.failure_count
                  = Len(d.contents) * Len(d.platforms)
            /\ \A p \in Range(d.platforms) :
                  ~PlatformConfigGet(platform_configs, p).enabled =>
                      /\ \A i \in 1..Len(d.report.details) :
                            /\ d.report.details[i].platform_results[p]
                                  = FailedResult(p, "platform_disabled")
                            /\ ~MethodInvoked(d.report.details[i].platform_results[p])
                      /\ d.contents # <<>> =>
                            /\ p \in DOMAIN d.report.platform_results
                            /\ d.report.platform_results[p]
                                  = [success |-> 0, failure |-> Len(d.contents)]
                            /\ d.report.failure_count >= Len(d.contents)

\* C14 witness: two contents sent to enabled zhihu and disabled wechat: two
\* successes on zhihu, two failures tallied for wechat
C14_Witness ==
    \E k \in 1..Len(dispatches) :
        LET d == dispatches[k]
        IN  /\ d.platforms = <<"wechat", "zhihu">>
            /\ Len(d.contents) = 2
            /\ ~platform_configs["wechat"].enabled
            /\ d.report.platform_results["wechat"] = [success |-> 0, failure |-> 2]
            /\ d.report.platform_results["zhihu"] = [success |-> 2, failure |-> 0]
            /\ d.report.failure_count = 2

\* --------------------------------------------------------------------- C15
\* C15: when the remote call of a webhook or api attempt answers without
\* success or raises, the attempt's result has success = false and the error
\* of that answer or exception; the call still returns a report of every
\* (content, platform) pair and appends its history entry, and every other
\* pair whose remote call succeeds is a success.
C15_RemoteFailureContained ==
    \A k \in 1..Len(dispatches) :
        LET d == dispatches[k]
        IN  /\ Len(d.report.details) = Len(d.contents)
            /\ d.report.success_count + d.report.failure_count
                  = Len(d.contents) * Len(d.platforms)
            /\ publish_history # <<>>
            /\ \A i \in 1..Len(d.contents), j \in 1..Len(d.platforms) :
                  LET p == d.platforms[j]
                      platform_config == PlatformConfigGet(platform_configs, p)
                      r == d.report.details[i].platform_results[p]
                  IN  /\ DOMAIN d.report.details[i].platform_results = Range(d.platforms)
                      /\ (/\ platform_config.enabled
                          /\ platform_config.publish_method \in {"api", "webhook"}
                          /\ d.env[<<i, j>>] = "refused")
                            => r = FailedResult(p, "remote_failure")
                      /\ (/\ platform_config.enabled
                          /\ platform_config.publish_method \in {"api", "webhook"}
                          /\ d.env[<<i, j>>] = "raised")
                            => r = FailedResult(p, "remote_exception")
                      /\ (/\ platform_config.enabled
                          /\ platform_config.publish_method = "api"
                          /\ d.env[<<i, j>>] = "ok")
                            => r.success /\ r.method = "api"

\* C15 witness: the WeChat call of the first content raised, that of the
\* second was refused, and both contents were still published on feishu
C15_Witness ==
    \E k \in 1..Len(dispatches) :
        LET d == dispatches[k]
        IN  /\ d.platforms = <<"wechat", "feishu", "file">>
            /\ Len(d.contents) = 2
            /\ d.env[<<1, 1>>] = "raised"
            /\ d.env[<<2, 1>>] = "refused"
            /\ d.report.details[1].platform_results["wechat"].error = "remote_exception"
            /\ d.report.details[2].platform_results["wechat"].error = "remote_failure"
            /\ d.report.details[1].platform_results["feishu"].success
            /\ d.report.details[2].platform_results["feishu"].success
            /\ d.report.platform_results["wechat"] = [success |-> 0, failure |-> 2]

\* --------------------------------------------------------------------- C16
\* C16: within one publish_to_platforms call a publish method is invoked at
\* most once for a (content, platform) pair, and only for a pair whose
\* platform is enabled and passes the rate check made on the history as it
\* was before the call; a disabled platform reports the disabled outcome even
\* when it is at its limit, an enabled platform at its limit the rate-limited
\* outcome, and neither has a method invoked.
C16_OnceAfterChecks ==
    [][direct_calls' = direct_calls + 1 =>
          LET d == Last(dispatches')
              today == DayOf(now)
              Invoked(i, p) ==
                  SelectSeq(d.report.invocations,
                            LAMBDA v : v.content_index = i - 1 /\ v.platform = p)
          IN  /\ Len(d.report.invocations) <= Len(d.contents) * Len(d.platforms)
              /\ \A i \in 1..Len(d.contents), p \in Range(d.platforms) :
                    LET platform_config == PlatformConfigGet(platform_configs, p)
                        r == d.report.details[i].platform_results[p]
                        under_limit == CheckRateLimit(platform_configs, publish_history,
                                                      p, today)
                    IN  /\ Len(Invoked(i, p)) <= 1
                        /\ Len(Invoked(i, p)) = 1 => platform_config.enabled /\ under_limit
                        /\ ~platform_config.enabled =>
                              r.error = "platform_disabled" /\ Invoked(i, p) = <<>>
                        /\ (platform_config.enabled /\ ~under_limit) =>
                              r.error = "rate_limited" /\ Invoked(i, p) = <<>>
                        /\ (platform_config.enabled /\ under_limit
                                /\ platform_config.publish_method \in {"file", "webhook", "api"})
                              => Len(Invoked(i, p)) = 1]_vars

\* C16 witness: zhihu, disabled and given rate_limit 0 before the call,
\* reports the disabled outcome for both contents, and the feishu webhook was
\* invoked once for each content
C16_Witness ==
    /\ direct_calls = 1
    /\ Len(api_log) = 1
    /\ api_log[1].op = "update_platform_config"
    /\ api_log[1].appends = 0
    /\ ~platform_configs["zhihu"].enabled
    /\ platform_configs["zhihu"].rate_limit = 0
    /\ \A i \in 1..2 :
          Last(dispatches).report.details[i].platform_results["zhihu"].error
              = "platform_disabled"
    /\ Last(dispatches).report.invocations
          = <<[content_index |-> 0, platform |-> "feishu"],
              [content_index |-> 1, platform |-> "feishu"]>>

\* --------------------------------------------------------------------- C17
\* C17: two consecutive evaluations of the rate check for the same platform
\* on the same day, with no history append (and no other publisher call)
\* between them, return the same result, and an evaluation leaves the publish
\* history, the history file and the platform registry unchanged.
C17_RateCheckReadOnly ==
    /\ [](\A i \in 1..(Len(api_log) - 1) :
            LET a == api_log[i]
                b == api_log[i + 1]
            IN  (/\ a.op = "_check_rate_limit" /\ b.op = "_check_rate_limit"
                 /\ a.platform = b.platform /\ a.day = b.day /\ a.appends = b.appends)
                    => a.result = b.result)
    /\ [][(Len(api_log') = Len(api_log) + 1 /\ Last(api_log').op = "_check_rate_limit")
             => UNCHANGED <<publish_history, history_file, platform_configs>>]_vars

\* C17 witness: after a publish, the rate check of zhihu was evaluated twice
\* in a row on one day
C17_Witness ==
    /\ Len(api_log) = 2
    /\ publish_history # <<>>
    /\ \A i \in 1..2 :
          /\ api_log[i].op = "_check_rate_limit"
          /\ api_log[i].platform = "zhihu"
          /\ api_log[i].day = DayOf(Last(publish_history).timestamp)
          /\ api_log[i].appends = 1
          /\ api_log[i].result

\* --------------------------------------------------------------------- C19
\* C19: enable_platform and update_platform_config return False for a name
\* that is not in the registry and leave the registry as it was; for a name
\* in the registry they return True and change that platform's descriptor
\* alone (enable_platform only its enabled flag, update_platform_config only
\* the keys it is given); neither touches the publish history.
C19_MutatorsScoped ==
    [][(/\ Len(api_log') = Len(api_log) + 1
        /\ Last(api_log').op \in {"enable_platform", "update_platform_config"}) =>
          LET c == Last(api_log')
              p == c.platform
          IN  /\ UNCHANGED <<publish_history, history_file>>
              /\ DOMAIN platform_configs' = DOMAIN platform_configs
              /\ IF p \notin DOMAIN platform_configs
                 THEN /\ c.result = FALSE
                      /\ platform_configs' = platform_configs
                 ELSE /\ c.result = TRUE
                      /\ \A q \in DOMAIN platform_configs \ {p} :
                            platform_configs'[q] = platform_configs[q]
                      /\ platform_configs'[p].publish_method
                            = platform_configs[p].publish_method
                      /\ c.op = "enable_platform" =>
                            platform_configs'[p].rate_limit = platform_configs[p].rate_limit
                      /\ c.op = "update_platform_config" =>
                            /\ platform_configs'[p].enabled = platform_configs[p].enabled
                            /\ platform_configs'[p].rate_limit = 0]_vars

\* C19 witness: enable_platform("douyin") returned False, then
\* enable_platform("zhihu", True) returned True, and the registry differs
\* from the seeded one in zhihu's enabled flag alone
C19_Witness ==
    /\ Len(api_log) = 2
    /\ api_log[1].op = "enable_platform"
    /\ api_log[1].platform = "douyin"
    /\ api_log[1].result = FALSE
    /\ api_log[2].op = "enable_platform"
    /\ api_log[2].platform = "zhihu"
    /\ api_log[2].result = TRUE
    /\ platform_configs = [SeedPlatformConfigs EXCEPT !["zhihu"].enabled = TRUE]

\* --------------------------------------------------------------------- C18
\* C18 (as claimed): a run given no inspirations, the argument absent or an
\* empty sequence, takes the default batch and does not end with the
\* no-inspirations error.
C18_FallsBackWhenEmpty ==
    (pc # "idle" /\ (~inspiration_data.given \/ inspiration_data.items = <<>>)) =>
        /\ results.total_inspirations = DefaultBatchSize
        /\ "no_inspirations" \notin Range(results.errors)

\* C18 (amended): a run whose argument is absent takes the default batch,
\* truncated to the cap, and processes it; a run given an empty sequence
\* returns at once with the no-inspirations error as its only error, no
\* transform called, no dispatch made, every counter zero and no summary.
C18_FallbackOnlyWhenAbsent ==
    pc # "idle" =>
        /\ ~inspiration_data.given =>
              /\ results.total_inspirations = DefaultBatchSize
              /\ inspirations
                    = [i \in 1..Min(DefaultBatchSize, config.max_articles_per_run) |-> i]
              /\ "no_inspirations" \notin Range(results.errors)
              /\ (config.outline_enabled /\ pc # "outline")
                    => Counters("outline").processed = Len(inspirations)
        /\ (inspiration_data.given /\ inspiration_data.items = <<>>) =>
              /\ pc = "returned"
              /\ results = [EmptyResults EXCEPT !.pipeline_run_id = results.pipeline_run_id,
                                                !.errors = <<"no_inspirations">>]
              /\ inspirations = <<>>
              /\ calls = <<>>
              /\ dispatches = <<>>

\* C18 witness: a run without argument under a cap of 1 has finished with
\* the first inspiration of the default batch processed
C18_Witness ==
    /\ pc = "returned"
    /\ ~inspiration_data.given
    /\ config.max_articles_per_run = 1
    /\ results.total_inspirations = DefaultBatchSize
    /\ inspirations = <<1>>
    /\ Counters("outline") = [processed |-> 1, success |-> 1, failed |-> 0]
    /\ DOMAIN results.summary # {}

\* --------------------------------------------------------------------- C20
\* C20: in the record of a returned run, a failed counter above zero in any
\* stage (outline, writer, formatter, publisher) comes with a non-empty
\* errors list, and a summary with overall_success true comes with every
\* failed counter zero.
C20_ErrorsAccountForFailures ==
    pc = "returned" =>
        /\ (\E m \in {"outline", "writer", "formatter", "publisher"} : Counters(m).failed > 0)
              => results.errors # <<>>
        /\ (DOMAIN results.summary # {} /\ results.summary.overall_success)
              => \A m \in {"outline", "writer", "formatter", "publisher"} :
                    Counters(m).failed = 0

\* --------------------------------------------------------------------- C21
\* the run file of the current run
RunFile == ArtifactPath("runs", "-", results.pipeline_run_id, 0)

\* the current run has returned after _save_results wrote its run file
RunPersisted ==
    /\ pc = "returned"
    /\ results.output_files # <<>>
    /\ Last(results.output_files) = RunFile

\* C21: the record run_pipeline returns is equal, field for field
\* (output_files included), to the record written to its run file.
C21_ReturnedEqualsPersisted ==
    RunPersisted => /\ RunFile \in DOMAIN disk
                    /\ disk[RunFile].data = results

\* --------------------------------------------------------------------- C22
StageRank(op) == CASE op = "outline" -> 1 [] op = "write" -> 2 [] op = "format" -> 3

\* the (article, platform) pairs of the format stage in loop order
FormatOrder ==
    LET p == Len(config.default_format_platforms)
    IN  [k \in 1..(Len(articles) * p) |->
            [op |-> "format", src |-> articles[((k - 1) \div p) + 1].src,
             platform |-> config.default_format_platforms[((k - 1) % p) + 1]]]

IsPrefix(s, t) == Len(s) <= Len(t) /\ \A i \in 1..Len(s) : s[i] = t[i]

\* the transform calls of a stage without their outcomes
Pairs(ops) ==
    LET cs == CallsOf(ops)
    IN  [i \in DOMAIN cs |-> [op |-> cs[i].op, src |-> cs[i].src, platform |-> cs[i].platform]]

\* C22: in a run the transforms are called stage by stage (outline, write,
\* format) and the dispatches come last: a stage starts only when the stage
\* before it has gone through all of its items; each stage takes its items
\* in input order; and the survivors of a stage keep the order of its inputs.
C22_StagesInOrder ==
    LET outlineCalls == CallsOf({"outline"})
        writeCalls == CallsOf({"write"})
        formatCalls == Pairs({"format"})
    IN  /\ \A i, j \in DOMAIN calls :
              i < j => StageRank(calls[i].op) <= StageRank(calls[j].op)
        /\ writeCalls # <<>> => Len(outlineCalls) = Len(inspirations)
        /\ formatCalls # <<>> => Len(writeCalls) = Len(outlines)
        /\ dispatches # <<>> => formatCalls = FormatOrder
        /\ IsPrefix(Srcs(outlineCalls), inspirations)
        /\ IsPrefix(Srcs(writeCalls), Srcs(outlines))
        /\ IsPrefix(formatCalls, FormatOrder)
        /\ Increasing(Srcs(outlines))
        /\ Increasing(Srcs(articles))
        /\ NonDecreasing(Srcs(formatted_contents))
        /\ \A k \in DOMAIN dispatches :
              /\ Increasing(Srcs(dispatches[k].contents))
              /\ \A i \in DOMAIN dispatches[k].report.details :
                    dispatches[k].report.details[i].content_index = i - 1

\* C22 witness: a run of three inspirations lost its second item in the
\* outline stage, went through the three later stages and returned
C22_Witness ==
    /\ pc = "returned"
    /\ Len(inspirations) = 3
    /\ Srcs(outlines) = <<1, 3>>
    /\ Srcs(articles) = <<1, 3>>
    /\ Len(CallsOf({"format"})) = 2 * Len(config.default_format_platforms)
    /\ dispatches # <<>>
    /\ Len(dispatches[1].contents) = 2

\* --------------------------------------------------------------------- C23
\* C23: once an enabled format stage has returned with a surviving articles
\* and p configured format platforms, it has made a x p attempts (formatter
\* processed = a x p), and every formatted content carries in its platform
\* field the configured platform it was produced for.
C23_OnePerPair ==
    (FormatterDone /\ config.formatter_enabled) =>
        LET attempts == Len(articles) * Len(config.default_format_platforms)
        IN  /\ Counters("formatter").processed = attempts
            /\ Len(CallsOf({"format"})) = attempts
            /\ \A i \in DOMAIN formatted_contents :
                  formatted_contents[i].platform = formatted_contents[i].file_path.platform

\* --------------------------------------------------------------------- C24
\* entries of the history file written since the model's clock started
NewEntries == SelectSeq(history_file, LAMBDA h : h.timestamp >= 0)

\* C24: when two dispatcher objects share the history file and each has
\* completed one append (its entry added and the file rewritten), the file
\* holds both entries, however their load, append and save steps interleave.
C24_NoLostUpdate ==
    (Len(instances) = 2 /\ \A i \in DOMAIN instances : instances[i].pc = "saved") =>
        /\ Len(NewEntries) = 2
        /\ \A i \in DOMAIN instances : instances[i].entry \in Range(history_file)

\* --------------------------------------------------------------------- C25
\* the entry of errors that reports a failed artifact save of a stage
SaveErrorOf(op) ==
    CASE op = "outline" -> "outline_save_failed"
      [] op = "write" -> "article_save_failed"
      [] op = "format" -> "formatted_save_failed"

\* C25: in the record a run returns, every failed write is named in errors:
\* a failed artifact save, a failed rewrite of the history file after a
\* dispatch, and a failed write of the run file at the end of a run that
\* went through its stages.
C25_WriteFailuresSurfaced ==
    pc = "returned" =>
        /\ \A i \in DOMAIN calls :
              calls[i].outcome = "save_failed"
                 => SaveErrorOf(calls[i].op) \in Range(results.errors)
        /\ (\E k \in DOMAIN dispatches : ~dispatches[k].saved) => results.errors # <<>>
        /\ (DOMAIN results.summary # {} /\ ~RunPersisted) => results.errors # <<>>

\* --------------------------------------------------------------------- C26
ArtifactDirs == {"outlines", "articles", "formatted"}

\* C26: no outline, article or formatted-content file is written twice,
\* within a run or across the runs of one pipeline.
C26_ArtifactsWrittenOnce ==
    \A path \in DOMAIN disk : path.dir \in ArtifactDirs => disk[path].writes = 1

\* --------------------------------------------------------------------- C27
RECURSIVE TallySum(_, _)
\* the sum of one column of a per-platform tally
TallySum(platform_results, key) ==
    IF DOMAIN platform_results = {}
    THEN 0
    ELSE LET p == CHOOSE q \in DOMAIN platform_results : TRUE
         IN  platform_results[p][key]
                + TallySum([q \in DOMAIN platform_results \ {p} |-> platform_results[q]], key)

\* C27: in every report publish_to_platforms returns, success_count +
\* failure_count = total_contents x total_platforms, the two counts are the
\* sums of the per-platform success and failure tallies, and details holds
\* one record per dispatched content, in order, tagged with the content's
\* position.
C27_ReportAddsUp ==
    \A k \in DOMAIN dispatches :
        LET d == dispatches[k]
            report == d.report
        IN  /\ report.total_contents = Len(d.contents)
            /\ report.total_platforms = Len(d.platforms)
            /\ report.success_count + report.failure_count
                  = report.total_contents * report.total_platforms
            /\ report.success_count = TallySum(report.platform_results, "success")
            /\ report.failure_count = TallySum(report.platform_results, "failure")
            /\ Len(report.details) = Len(d.contents)
            /\ \A i \in DOMAIN report.details :
                  /\ report.details[i].content_index = i - 1
                  /\ DOMAIN report.details[i].platform_results = Range(d.platforms)

\* C27 witness: a call with two contents and two platforms, one of them
\* disabled, returned a report with two successes and two failures
C27_Witness ==
    /\ direct_calls > 0
    /\ dispatches # <<>>
    /\ Len(dispatches[1].contents) = 2
    /\ dispatches[1].platforms = <<"wechat", "zhihu">>
    /\ dispatches[1].report.success_count = 2
    /\ dispatches[1].report.failure_count = 2

\* --------------------------------------------------------------------- C28
\* the run has returned early with the given stage failure as its last error
StoppedWith(error) ==
    /\ pc = "returned"
    /\ results.errors # <<>>
    /\ Last(results.errors) = error
    /\ DOMAIN results.summary = {}
    /\ dispatches = <<>>
    /\ ZeroCounters("publisher")

\* C28: a transform stage that is switched off calls its transform on no
\* item and leaves its counters at zero, and the run returns with that
\* stage's failure error as it does when every item failed, no later stage
\* having run.  With the publisher switched off, or auto_publish false, a run
\* that has formatted contents makes no dispatch, appends no history entry,
\* reports total_published = 0 and adds no error.
C28_DisabledStages ==
    /\ (~config.outline_enabled /\ OutlineDone) =>
          /\ calls = <<>>
          /\ \A m \in {"outline", "writer", "formatter"} : ZeroCounters(m)
          /\ results.errors = <<"outline_stage_failed">>
          /\ StoppedWith("outline_stage_failed")
    /\ (~config.writer_enabled /\ WriterDone) =>
          /\ CallsOf({"write", "format"}) = <<>>
          /\ \A m \in {"writer", "formatter"} : ZeroCounters(m)
          /\ StoppedWith("writer_stage_failed")
    /\ (~config.formatter_enabled /\ FormatterDone) =>
          /\ CallsOf({"format"}) = <<>>
          /\ ZeroCounters("formatter")
          /\ StoppedWith("formatter_stage_failed")
    /\ ((~config.publisher_enabled \/ ~config.auto_publish)
           /\ FormatterDone /\ formatted_contents # <<>>) =>
          /\ pc \in {"publish", "finish", "returned"}
          /\ dispatches = <<>>
          /\ publish_history = <<>>
          /\ history_file = <<>>
          /\ results.total_published = 0
          /\ ZeroCounters("publisher")
          /\ Len(results.errors) = CountErrors(ItemErrorKinds)
          /\ CountErrors(ItemErrorKinds) =
                Counters("outline").failed + Counters("writer").failed
                   + Counters("formatter").failed
          /\ pc = "returned" => DOMAIN results.summary # {}

\* C28 witness: with the publisher switched off, a run of two inspirations
\* went through the three transform stages and returned without an error
C28_Witness ==
    /\ ~config.publisher_enabled
    /\ pc = "returned"
    /\ Len(formatted_contents) = 2
    /\ results.errors = <<>>
    /\ results.summary.overall_success

\* --------------------------------------------------------------------- C29
\* C29: in the record of a returned run, every stage's counters satisfy
\* processed = success + failed.
C29_CountersAddUp ==
    pc = "returned" =>
        \A m \in {"outline", "writer", "formatter", "publisher"} :
            Counters(m).processed = Counters(m).success + Counters(m).failed

\* --------------------------------------------------------------------- C30
\* this step is the return of an invocation of run_pipeline
Returns == pc' = "returned" /\ (pc # "returned" \/ run_calls' # run_calls)

\* this step is an invocation of run_pipeline that raises
Raises == pc' = "raised" /\ run_calls' # run_calls

\* C30: total_runs is the number of run_pipeline invocations and
\* success_count + failure_count never exceeds it; an invocation that
\* returns after the last stage adds one to success_count when its errors
\* list is empty and one to failure_count otherwise, an invocation that
\* raises adds one to failure_count, an invocation that returns early adds
\* to neither, and nothing else changes the two counters.
C30_StatusCounters ==
    /\ [](/\ pipeline_status.total_runs = run_calls
          /\ pipeline_status.success_count + pipeline_status.failure_count
                <= pipeline_status.total_runs)
    /\ [][LET succ == pipeline_status'.success_count - pipeline_status.success_count
              fail == pipeline_status'.failure_count - pipeline_status.failure_count
          IN  IF Returns /\ DOMAIN results'.summary # {}
              THEN IF results'.errors = <<>>
                   THEN succ = 1 /\ fail = 0
                   ELSE succ = 0 /\ fail = 1
              ELSE IF Raises
              THEN succ = 0 /\ fail = 1
              ELSE succ = 0 /\ fail = 0]_vars

\* C30 witness: after two invocations, one that went through the stages
\* without an error and one that returned early, success_count is 1 and
\* failure_count is 0
C30_Witness ==
    /\ run_calls = 2
    /\ pc = "returned"
    /\ DOMAIN results.summary = {}
    /\ pipeline_status = [last_run |-> now, total_runs |-> 2,
                          success_count |-> 1, failure_count |-> 0]
====
